---- MODULE Spec2Model ----
(***************************************************************************)
(* Verification model of napcat_qce: the polling task synchronizer         *)
(* (client.py, TasksAPI.wait_for_completion), the push task synchronizer   *)
(* (websocket.py, ExportProgressMonitor) and the process supervisor        *)
(* (launcher.py, NapCatQCELauncher).                                       *)
(*                                                                         *)
(* Each subsystem has its own variables, initial condition, next-state     *)
(* relation and specification (PollSpec, MonitorSpec, LauncherSpec); a     *)
(* specification leaves the variables of the other subsystems unchanged.   *)
(***************************************************************************)
EXTENDS Integers, Sequences, FiniteSets, TLC

(***************************************************************************)
(* Bounds of the model.                                                    *)
(***************************************************************************)
\* largest timeout (in clock ticks) passed to wait_for_completion
MaxTimeout == 4
\* largest poll_interval (in clock ticks) passed to wait_for_completion
MaxPoll == 2
\* longest time one HTTP fetch of the task may take
MaxFetchDelay == 1
\* longest oversleep of time.sleep beyond the requested interval
MaxJitter == 1
\* number of frames the event stream delivers to the monitor
MaxEvents == 3
\* frames dispatched in MonitorLiveSpec, where termination is checked
MaxLiveEvents == 2
\* frames handed to the handlers in LockSpec
MaxLockFrames == 2
\* number of output lines read from the child processes and the side-channel
MaxLines == 2
\* number of child processes start() spawns
MaxStarts == 2
\* number of on() calls on a WebSocketClient
MaxOns == 3
\* number of frames the receive loop deals with
MaxFrames == 2
\* number of bytes the side-channel delivers
MaxStream == 4
\* number of connect() calls on a WebSocketClient
MaxConnects == 2
\* nested _connect_internal calls a thread's stack holds before the
\* interpreter raises RecursionError (a scaled-down sys.getrecursionlimit())
RecursionLimit == 3

VARIABLES
    \* ---- TasksAPI.wait_for_completion (client.py) ----
    wfc_pc,         \* position of the caller inside wait_for_completion
    task_id,        \* argument task_id
    timeout,        \* argument timeout
    poll_interval,  \* argument poll_interval
    on_progress,    \* TRUE when an on_progress callback was passed
    now,            \* time.time()
    start_time,     \* local start_time
    task,           \* local task: the snapshot fetched in this iteration
    fetches,        \* number of self.get(task_id) calls made
    sleeps,         \* number of time.sleep(poll_interval) calls made
    progressCount,  \* number of on_progress invocations
    progressLast,   \* argument of the last on_progress invocation
    firstTask,      \* the snapshot returned by the first fetch
    allRunning,     \* TRUE while every fetched snapshot had status RUNNING
    wfc_result,     \* how the call ended: returned task or raised error
    \* ---- ExportProgressMonitor (websocket.py) ----
    _tasks,         \* self._tasks: task id -> last snapshot (NoSnap: no key)
    _task_events,   \* self._task_events: task id -> Event (0: no key); the
                    \* Event created by waiter w is identified with w
    event_set,      \* flag of the threading.Event created by each waiter
    mon_pc,         \* position of each waiter thread inside wait_for_task
    mon_task_id,    \* argument task_id of each waiter
    mon_result,     \* how each wait_for_task call ended
    eventLog,       \* the frames dispatched so far, in arrival order
    regLog,         \* the waiters in the order they registered their Event
    terminalSeen,   \* per waiter: a complete/error frame for its task id
                    \* was dispatched after it registered
    \* ---- ExportProgressMonitor, statement by statement (websocket.py) ----
    _lock,          \* self._lock: "free" or the thread holding it
    lk_recv_pc,     \* position of the receive loop inside a handler
    lk_data,        \* the frame the handler was called with
    lk_frames,      \* number of frames handed to the handlers
    lk_wait_pc,     \* position of each caller inside wait_for_task
    lk_poll_pc,     \* position of the poll_progress thread
    lk_status,      \* local status of poll_progress
    \* ---- create_client_with_auto_token (auto_token.py) ----
    at_pc,          \* position inside create_client_with_auto_token
    at_token,       \* argument token
    at_auto_discover, \* argument auto_discover
    at_env,         \* os.environ.get("NAPCAT_QCE_TOKEN")
    at_config,      \* the security.json file
    at_final_token, \* local final_token
    at_result,      \* the client returned or the error raised
    \* ---- NapCatQCE._request (client.py) ----
    rq_pc,          \* position inside _request
    rq_response,    \* local response
    rq_parsed,      \* TRUE once response.json() has been called
    rq_result,      \* the value returned or the error raised
    \* ---- NapCatQCELauncher.wait_for_ready (launcher.py) ----
    wfr,            \* the wait_for_ready call in progress
    gc_pc,          \* position of a get_client call
    gc_self_token,  \* self._token when get_client is called
    gc_config,      \* the security.json get_client finds
    gc_host,        \* get_client's host argument
    gc_port,        \* get_client's port argument
    gc_token,       \* get_client's local `token`
    gc_result,      \* what get_client returned or raised
    _handlers,      \* self._handlers: the handler list of each event type
    ws_keys,        \* the event types that are keys of self._handlers
    ws_ons,         \* number of on() calls made
    ws_live,        \* registrations made by on() and not removed by off()
    em_pc,          \* position of the receive loop: "recv" or in the `for` of _emit
    em_type,        \* event type of the frame being dispatched, "None" if not JSON
    em_list,        \* the list _emit iterates, once the dictionary entry is rebound
    em_alias,       \* whether _emit iterates the dictionary's own list object
    em_idx,         \* index of the next handler of the `for`
    em_calls,       \* the handlers invoked for the frame, in order
    em_begin,       \* the registrations live when the dispatch began
    em_quiet,       \* no on() or off() of the type ran during the dispatch
    ws_frames,      \* number of frames the receive loop has dealt with
    ws_caught,      \* ordinals of the frames in which a handler raised
    cn_pc,          \* position of the application thread in connect() / disconnect()
    auto_reconnect, \* self.auto_reconnect
    _should_reconnect, \* self._should_reconnect
    _connected,     \* self._connected
    _ws,            \* self._ws: 0 for None, else the thread whose WebSocketApp it is
    th_pc,          \* position of each thread connect() started
    th_app,         \* state of the WebSocketApp each thread runs
    th_depth,       \* nested _connect_internal calls on each thread's stack
    cn_disconnected, \* disconnect() has returned and connect() was not called since
    bf_pc,          \* position of a _read_named_pipe thread: pipe closed, or in its loop
    bf_stream,      \* the bytes the side-channel delivers in all
    bf_read,        \* number of bytes ReadFile has delivered
    bf_chunks,      \* number of reads that delivered bytes
    partial_line,   \* the local partial_line of _read_named_pipe
    bf_lines,       \* the lines passed to _process_line, in order
    \* ---- _read_output with raising callbacks (launcher.py) ----
    cb_pc,          \* _read_output thread: "none", "read", "classify", "dead" (ended by an exception), "ended"
    cb_line,        \* the line the thread holds
    cb_ready,       \* self._ready
    cb_token,       \* self._token
    cb_pipe_name,   \* self._pipe_name
    cb_calls,       \* the callbacks invoked for the last line classified
    cb_raised,      \* the callback whose exception was raised last, "None" before
    cb_read,        \* lines read so far
    \* ---- NapCatQCELauncher (launcher.py) ----
    platform,       \* sys.platform: "win32" or "other"
    callbacks,      \* which of _on_ready, _on_error, _on_output are set (the
                    \* caller registered all three before start())
    _process,       \* self._process: 0 for None, else the child it refers to
    _output_thread, \* self._output_thread: 0 for None, else the reader thread
    _pipe_thread,   \* self._pipe_thread: 0 for None, else the pipe thread
    _running,       \* self._running
    _ready,         \* self._ready
    _token,         \* self._token: None or Some(text)
    _pipe_name,     \* self._pipe_name: None or Some(text)
    _pipe_handle,   \* self._pipe_handle: 0 for None, else the handle opened
                    \* by that pipe thread
    child,          \* state of each spawned child process
    rd_pc,          \* position of each _read_output thread
    rd_line,        \* the line each _read_output thread holds
    pt_pc,          \* position of each _read_named_pipe thread
    pt_line,        \* the line of the chunk a pipe thread classifies next
    linesRead,      \* number of lines read so far
    ctl_pc,         \* position of the thread calling start() / stop()
    lastCall,       \* the last start() / stop() call and what it raised
    pipeSpawned,    \* pipe threads spawned since the last successful start()
    lastCls         \* what the last _process_line call did

pollVars == <<wfc_pc, task_id, timeout, poll_interval, on_progress, now,
              start_time, task, fetches, sleeps, progressCount, progressLast,
              firstTask, allRunning, wfc_result>>

monVars == <<_tasks, _task_events, event_set, mon_pc, mon_task_id, mon_result,
             eventLog, regLog, terminalSeen>>

launcherVars == <<platform, callbacks, _process, _output_thread, _pipe_thread,
                  _running, _ready, _token, _pipe_name, _pipe_handle, child,
                  rd_pc, rd_line, pt_pc, pt_line, linesRead, ctl_pc,
                  lastCall, pipeSpawned, lastCls>>

lockVars == <<_lock, lk_recv_pc, lk_data, lk_frames, lk_wait_pc, lk_poll_pc,
              lk_status>>

autoTokenVars == <<at_pc, at_token, at_auto_discover, at_env, at_config,
                   at_final_token, at_result>>

requestVars == <<rq_pc, rq_response, rq_parsed, rq_result>>

readyVars == <<wfr>>

getClientVars == <<gc_pc, gc_self_token, gc_config, gc_host, gc_port, gc_token,
                   gc_result>>

handlerVars == <<_handlers, ws_keys, ws_ons, ws_live, em_pc, em_type, em_list, em_alias, em_idx, em_calls, em_begin, em_quiet, ws_frames, ws_caught>>

connVars == <<cn_pc, auto_reconnect, _should_reconnect, _connected, _ws, th_pc, th_app, th_depth, cn_disconnected>>

bufferVars == <<bf_pc, bf_stream, bf_read, bf_chunks, partial_line, bf_lines>>

callbackVars == <<cb_pc, cb_line, cb_ready, cb_token, cb_pipe_name, cb_calls, cb_raised, cb_read>>

vars == <<pollVars, monVars, launcherVars, lockVars, autoTokenVars, requestVars,
          readyVars, getClientVars,
    handlerVars,
    connVars,
    bufferVars,
    callbackVars>>

\* what the actions of one subsystem leave unchanged
nonPollVars == <<monVars, launcherVars, lockVars, autoTokenVars, requestVars,
                 readyVars, getClientVars,
    handlerVars,
    connVars,
    bufferVars,
    callbackVars>>
nonMonVars == <<pollVars, launcherVars, lockVars, autoTokenVars, requestVars,
                readyVars, getClientVars,
    handlerVars,
    connVars,
    bufferVars,
    callbackVars>>
\* start(), stop() and the reader threads also leave the record of the
\* wait_for_ready call alone
nonLauncherVars == <<pollVars, monVars, lockVars, autoTokenVars, requestVars,
                     readyVars, getClientVars,
    handlerVars,
    connVars,
    bufferVars,
    callbackVars>>
nonAutoTokenVars == <<pollVars, monVars, launcherVars, lockVars, requestVars,
                      readyVars, getClientVars,
    handlerVars,
    connVars,
    bufferVars,
    callbackVars>>
nonRequestVars == <<pollVars, monVars, launcherVars, lockVars, autoTokenVars,
                    readyVars, getClientVars,
    handlerVars,
    connVars,
    bufferVars,
    callbackVars>>
nonReadyVars == <<pollVars, monVars, lockVars, autoTokenVars, requestVars,
                  getClientVars,
    handlerVars,
    connVars,
    bufferVars,
    callbackVars>>
nonGetClientVars == <<pollVars, monVars, launcherVars, lockVars, autoTokenVars,
                      requestVars, readyVars,
    handlerVars,
    connVars,
    bufferVars,
    callbackVars>>
nonHandlerVars == <<pollVars, monVars, launcherVars, lockVars, autoTokenVars, requestVars, readyVars, getClientVars,
    connVars,
    bufferVars,
    callbackVars>>
nonConnVars == <<pollVars, monVars, launcherVars, lockVars, autoTokenVars, requestVars, readyVars, getClientVars, handlerVars,
    bufferVars,
    callbackVars>>
nonBufferVars == <<pollVars, monVars, launcherVars, lockVars, autoTokenVars, requestVars, readyVars, getClientVars, handlerVars, connVars,
    callbackVars>>
nonCallbackVars == <<pollVars, monVars, launcherVars, lockVars, autoTokenVars, requestVars, readyVars, getClientVars, handlerVars, connVars, bufferVars>>

(***************************************************************************)
(* types.py: TaskStatus                                                    *)
(***************************************************************************)
PENDING == "pending"
RUNNING == "running"
PAUSED == "paused"
COMPLETED == "completed"
FAILED == "failed"
CANCELLED == "cancelled"
TaskStatus == {PENDING, RUNNING, PAUSED, COMPLETED, FAILED, CANCELLED}

\* task ids the caller may wait for
TaskIds == {"A", "B"}
\* values of the server-reported error field of a task (None or a text)
ErrorDetails == {"None", "disk full"}

NoTask == [status |-> "none", error |-> "None", fetchNo |-> 0]
NoResult == [kind |-> "none"]

\* ExportTask snapshot as built by TasksAPI.get: status and error come from
\* the server, fetchNo identifies the object (the n-th fetched snapshot)
Snapshot(s, e, n) == [status |-> s, error |-> e, fetchNo |-> n]

\* `task.status == TaskStatus.COMPLETED`
IsCompletedTypo(t) == t.status = "complete"
IsCompleted(t) == t.status = COMPLETED

\* `return task`
ReturnTask(t) == [kind |-> "return", task |-> t]
\* APIError(code="TASK_FAILED", details={"task_id": task_id, "error": task.error})
TaskFailedErrorNoDetail(id, t) ==
    [kind |-> "APIError", code |-> "TASK_FAILED", task_id |-> id, error |-> "None"]
TaskFailedError(id, t) ==
    [kind |-> "APIError", code |-> "TASK_FAILED", task_id |-> id, error |-> t.error]
\* APIError(code="TASK_CANCELLED", details={"task_id": task_id})
TaskCancelledError(id) ==
    [kind |-> "APIError", code |-> "TASK_CANCELLED", task_id |-> id]
\* TimeoutError(f"... {task_id}")
WfcTimeoutError(id) == [kind |-> "TimeoutError", task_id |-> id]
\* an exception of self.get(task_id) propagating out of the loop
FetchError == [kind |-> "NetworkError"]

\* `time.time() - start_time > timeout`
TimedOutSlack(t, s, limit) == t - s > limit + 2
TimedOut(t, s, limit) == t - s > limit

PollInit ==
    /\ wfc_pc = "idle"
    /\ task_id = "A"
    /\ timeout = 0
    /\ poll_interval = 1
    /\ on_progress = FALSE
    /\ now = 0
    /\ start_time = 0
    /\ task = NoTask
    /\ fetches = 0
    /\ sleeps = 0
    /\ progressCount = 0
    /\ progressLast = NoTask
    /\ firstTask = NoTask
    /\ allRunning = TRUE
    /\ wfc_result = NoResult

\* wait_for_completion(task_id, timeout, poll_interval, on_progress):
\* `start_time = time.time()`
WfcCall ==
    /\ wfc_pc = "idle"
    /\ UNCHANGED nonPollVars
    /\ \E id \in TaskIds, t \in 0..MaxTimeout, p \in 1..MaxPoll, cb \in BOOLEAN :
          /\ task_id' = id
          /\ timeout' = t
          /\ poll_interval' = p
          /\ on_progress' = cb
    /\ start_time' = now
    /\ wfc_pc' = "fetch"
    /\ UNCHANGED <<now, task, fetches, sleeps, progressCount, progressLast,
                   firstTask, allRunning, wfc_result>>

\* `task = self.get(task_id)`: the server answers with its current snapshot
WfcFetch ==
    /\ wfc_pc = "fetch"
    /\ UNCHANGED nonPollVars
    /\ \E s \in TaskStatus, e \in ErrorDetails, d \in 0..MaxFetchDelay :
          /\ task' = Snapshot(s, e, fetches + 1)
          /\ now' = now + d
          /\ allRunning' = (allRunning /\ s = RUNNING)
          /\ firstTask' = IF fetches = 0 THEN Snapshot(s, e, 1) ELSE firstTask
    /\ fetches' = fetches + 1
    /\ wfc_pc' = "progress"
    /\ UNCHANGED <<task_id, timeout, poll_interval, on_progress, start_time,
                   sleeps, progressCount, progressLast, wfc_result>>

\* `task = self.get(task_id)` raising (transport or API error): the exception
\* leaves wait_for_completion
WfcFetchRaises ==
    /\ wfc_pc = "fetch"
    /\ UNCHANGED nonPollVars
    /\ fetches' = fetches + 1
    /\ allRunning' = FALSE
    /\ wfc_result' = FetchError
    /\ wfc_pc' = "done"
    /\ UNCHANGED <<task_id, timeout, poll_interval, on_progress, now, start_time,
                   task, sleeps, progressCount, progressLast, firstTask>>

\* `if on_progress: on_progress(task)`
WfcProgressSkipsTerminal ==
    /\ wfc_pc = "progress"
    /\ UNCHANGED nonPollVars
    /\ IF on_progress /\ task.status \notin {COMPLETED, FAILED, CANCELLED}
          THEN /\ progressCount' = progressCount + 1
               /\ progressLast' = task
          ELSE UNCHANGED <<progressCount, progressLast>>
    /\ wfc_pc' = "branch"
    /\ UNCHANGED <<task_id, timeout, poll_interval, on_progress, now, start_time,
                   task, fetches, sleeps, firstTask, allRunning, wfc_result>>
WfcProgress ==
    /\ wfc_pc = "progress"
    /\ UNCHANGED nonPollVars
    /\ IF on_progress
          THEN /\ progressCount' = progressCount + 1
               /\ progressLast' = task
          ELSE UNCHANGED <<progressCount, progressLast>>
    /\ wfc_pc' = "branch"
    /\ UNCHANGED <<task_id, timeout, poll_interval, on_progress, now, start_time,
                   task, fetches, sleeps, firstTask, allRunning, wfc_result>>

\* the if / elif / elif on task.status
WfcBranchDeadlineFirst ==
    /\ wfc_pc = "branch"
    /\ UNCHANGED nonPollVars
    /\ \/ /\ TimedOut(now, start_time, timeout)
          /\ wfc_result' = WfcTimeoutError(task_id)
          /\ wfc_pc' = "done"
       \/ /\ ~TimedOut(now, start_time, timeout)
          /\ IsCompleted(task)
          /\ wfc_result' = ReturnTask(task)
          /\ wfc_pc' = "done"
       \/ /\ ~TimedOut(now, start_time, timeout)
          /\ task.status = FAILED
          /\ wfc_result' = TaskFailedError(task_id, task)
          /\ wfc_pc' = "done"
       \/ /\ ~TimedOut(now, start_time, timeout)
          /\ task.status = CANCELLED
          /\ wfc_result' = TaskCancelledError(task_id)
          /\ wfc_pc' = "done"
       \/ /\ ~TimedOut(now, start_time, timeout)
          /\ ~IsCompleted(task)
          /\ task.status \notin {FAILED, CANCELLED}
          /\ wfc_pc' = "check"
          /\ UNCHANGED wfc_result
    /\ UNCHANGED <<task_id, timeout, poll_interval, on_progress, now, start_time,
                   task, fetches, sleeps, progressCount, progressLast, firstTask,
                   allRunning>>
WfcBranch ==
    /\ wfc_pc = "branch"
    /\ UNCHANGED nonPollVars
    /\ \/ /\ IsCompleted(task)
          /\ wfc_result' = ReturnTask(task)
          /\ wfc_pc' = "done"
       \/ /\ task.status = FAILED
          /\ wfc_result' = TaskFailedError(task_id, task)
          /\ wfc_pc' = "done"
       \/ /\ task.status = CANCELLED
          /\ wfc_result' = TaskCancelledError(task_id)
          /\ wfc_pc' = "done"
       \/ /\ ~IsCompleted(task)
          /\ task.status \notin {FAILED, CANCELLED}
          /\ wfc_pc' = "check"
          /\ UNCHANGED wfc_result
    /\ UNCHANGED <<task_id, timeout, poll_interval, on_progress, now, start_time,
                   task, fetches, sleeps, progressCount, progressLast, firstTask,
                   allRunning>>

\* `if time.time() - start_time > timeout: raise TimeoutError(...)`
WfcCheckTimeoutReturnsTask ==
    /\ wfc_pc = "check"
    /\ UNCHANGED nonPollVars
    /\ IF TimedOut(now, start_time, timeout)
          THEN /\ wfc_result' = ReturnTask(task)
               /\ wfc_pc' = "done"
          ELSE /\ wfc_pc' = "sleep"
               /\ UNCHANGED wfc_result
    /\ UNCHANGED <<task_id, timeout, poll_interval, on_progress, now, start_time,
                   task, fetches, sleeps, progressCount, progressLast, firstTask,
                   allRunning>>
WfcCheckTimeout ==
    /\ wfc_pc = "check"
    /\ UNCHANGED nonPollVars
    /\ IF TimedOut(now, start_time, timeout)
          THEN /\ wfc_result' = WfcTimeoutError(task_id)
               /\ wfc_pc' = "done"
          ELSE /\ wfc_pc' = "sleep"
               /\ UNCHANGED wfc_result
    /\ UNCHANGED <<task_id, timeout, poll_interval, on_progress, now, start_time,
                   task, fetches, sleeps, progressCount, progressLast, firstTask,
                   allRunning>>

\* `time.sleep(poll_interval)`: suspends for at least poll_interval
WfcSleep ==
    /\ wfc_pc = "sleep"
    /\ UNCHANGED nonPollVars
    /\ \E j \in 0..MaxJitter : now' = now + poll_interval + j
    /\ sleeps' = sleeps + 1
    /\ wfc_pc' = "fetch"
    /\ UNCHANGED <<task_id, timeout, poll_interval, on_progress, start_time,
                   task, fetches, progressCount, progressLast, firstTask,
                   allRunning, wfc_result>>

PollNext ==
    \/ WfcCall
    \/ WfcFetch
    \/ WfcFetchRaises
    \/ WfcProgress
    \/ WfcBranch
    \/ WfcCheckTimeout
    \/ WfcSleep


(***************************************************************************)
(* websocket.py: ExportProgressMonitor                                     *)
(***************************************************************************)
\* the threads calling wait_for_task
Waiters == {1, 2}
\* "taskId" of an incoming frame; "" stands for a missing or empty taskId
EventTaskIds == TaskIds \cup {""}
\* "fileName" the server reports for the export of a task
FileNameOf(id) == IF id = "A" THEN "A.json" ELSE "B.json"
\* the export_progress / export_complete / export_error frames of the stream
Events ==
    [type : {"export_progress"}, taskId : EventTaskIds, progress : {50},
     fileName : {"None"}, error : {"None"}]
    \cup
    {[type |-> "export_complete", taskId |-> id, progress |-> 100,
      fileName |-> FileNameOf(id), error |-> "None"] : id \in EventTaskIds}
    \cup
    [type : {"export_error"}, taskId : EventTaskIds, progress : {0},
     fileName : {"None"}, error : {"disk full"}]

NoSnap == [status |-> "none", progress |-> 0, file_name |-> "None", error |-> "None"]
\* `self._tasks.get(task_id, {"status": "unknown"})`
UnknownSnap == [status |-> "unknown", progress |-> 0, file_name |-> "None", error |-> "None"]
\* the dict _handle_progress stores
ProgressSnap(data) ==
    [status |-> "running", progress |-> data.progress, file_name |-> "None",
     error |-> "None"]
\* the dict _handle_complete stores
CompleteSnap(data) ==
    [status |-> "completed", progress |-> 100, file_name |-> data.fileName,
     error |-> "None"]
\* the dict _handle_error stores
ErrorSnap(data) ==
    [status |-> "failed", progress |-> 0, file_name |-> "None",
     error |-> data.error]

\* the dict the handler of a frame stores for it
SnapOf(data) ==
    IF data.type = "export_progress" THEN ProgressSnap(data)
    ELSE IF data.type = "export_complete" THEN CompleteSnap(data)
    ELSE ErrorSnap(data)

\* `return self._tasks.get(...)`
MonReturned(snap) == [kind |-> "return", snapshot |-> snap]
\* TimeoutError raised by wait_for_task
MonTimeoutError(id) == [kind |-> "TimeoutError", task_id |-> id]
\* KeyError of `del self._task_events[task_id]`
MonKeyError(id) == [kind |-> "KeyError", task_id |-> id]

MonInit ==
    /\ _tasks = [id \in TaskIds |-> NoSnap]
    /\ _task_events = [id \in TaskIds |-> 0]
    /\ event_set = [w \in Waiters |-> FALSE]
    /\ mon_pc = [w \in Waiters |-> "idle"]
    /\ mon_task_id = [w \in Waiters |-> "A"]
    /\ mon_result = [w \in Waiters |-> NoResult]
    /\ eventLog = <<>>
    /\ regLog = <<>>
    /\ terminalSeen = [w \in Waiters |-> FALSE]

\* `self._task_events[task_id].set()` when task_id is a key of the map
SetAllEvents(id) ==
    [w \in Waiters |-> event_set[w] \/ (\E x \in TaskIds : _task_events[x] = w)]
SetEventOf(id) ==
    [w \in Waiters |-> event_set[w] \/ (id \in TaskIds /\ _task_events[id] = w)]

\* history: the waiters registered for the task id of a terminal frame
NoteTerminal(data) ==
    [w \in Waiters |->
        terminalSeen[w] \/ (mon_pc[w] # "idle" /\ mon_task_id[w] = data.taskId)]

\* _handle_progress(data), called by the receive loop for an export_progress frame
HandleProgress(data) ==
    /\ data.type = "export_progress"
    /\ IF data.taskId # ""
          THEN _tasks' = [_tasks EXCEPT ![data.taskId] = ProgressSnap(data)]
          ELSE UNCHANGED _tasks
    /\ UNCHANGED <<_task_events, event_set, terminalSeen>>

\* _handle_complete(data), called by the receive loop for an export_complete frame
HandleComplete(data) ==
    /\ data.type = "export_complete"
    /\ IF data.taskId # ""
          THEN /\ _tasks' = [_tasks EXCEPT ![data.taskId] = CompleteSnap(data)]
               /\ event_set' = SetEventOf(data.taskId)
          ELSE UNCHANGED <<_tasks, event_set>>
    /\ terminalSeen' = NoteTerminal(data)
    /\ UNCHANGED _task_events

\* _handle_error(data), called by the receive loop for an export_error frame
HandleError(data) ==
    /\ data.type = "export_error"
    /\ IF data.taskId # ""
          THEN /\ _tasks' = [_tasks EXCEPT ![data.taskId] = ErrorSnap(data)]
               /\ event_set' = SetEventOf(data.taskId)
          ELSE UNCHANGED <<_tasks, event_set>>
    /\ terminalSeen' = NoteTerminal(data)
    /\ UNCHANGED _task_events

\* the receive loop dispatches the next frame to the monitor's handler
MonDispatch ==
    /\ Len(eventLog) < MaxEvents
    /\ UNCHANGED nonMonVars
    /\ \E data \in Events :
          /\ \/ HandleProgress(data)
             \/ HandleComplete(data)
             \/ HandleError(data)
          /\ eventLog' = Append(eventLog, data)
    /\ UNCHANGED <<mon_pc, mon_task_id, mon_result, regLog>>

\* wait_for_task(task_id, timeout): `event = threading.Event()` and
\* `with self._lock: self._task_events[task_id] = event`
MonRegister(w) ==
    /\ mon_pc[w] = "idle"
    /\ UNCHANGED nonMonVars
    /\ \E id \in TaskIds :
          /\ mon_task_id' = [mon_task_id EXCEPT ![w] = id]
          /\ _task_events' = [_task_events EXCEPT ![id] = w]
    /\ mon_pc' = [mon_pc EXCEPT ![w] = "waiting"]
    /\ regLog' = Append(regLog, w)
    /\ UNCHANGED <<_tasks, event_set, mon_result, eventLog, terminalSeen>>

\* `event.wait(timeout)` returning True: the Event was set
MonWake(w) ==
    /\ mon_pc[w] = "waiting"
    /\ UNCHANGED nonMonVars
    /\ event_set[w]
    /\ mon_pc' = [mon_pc EXCEPT ![w] = "woken"]
    /\ UNCHANGED <<_tasks, _task_events, event_set, mon_task_id, mon_result,
                   eventLog, regLog, terminalSeen>>

\* `if not event.wait(timeout): raise TimeoutError(...)`
MonTimeoutNever(w) ==
    /\ mon_pc[w] = "waiting"
    /\ FALSE
    /\ UNCHANGED vars
MonTimeout(w) ==
    /\ mon_pc[w] = "waiting"
    /\ UNCHANGED nonMonVars
    /\ ~event_set[w]
    /\ mon_result' = [mon_result EXCEPT ![w] = MonTimeoutError(mon_task_id[w])]
    /\ mon_pc' = [mon_pc EXCEPT ![w] = "done"]
    /\ UNCHANGED <<_tasks, _task_events, event_set, mon_task_id, eventLog,
                   regLog, terminalSeen>>

\* `with self._lock: del self._task_events[task_id];
\*  return self._tasks.get(task_id, {"status": "unknown"})`
MonReturn(w) ==
    /\ mon_pc[w] = "woken"
    /\ UNCHANGED nonMonVars
    /\ IF _task_events[mon_task_id[w]] = 0
          THEN /\ mon_result' = [mon_result EXCEPT ![w] = MonKeyError(mon_task_id[w])]
               /\ UNCHANGED _task_events
          ELSE /\ _task_events' = [_task_events EXCEPT ![mon_task_id[w]] = 0]
               /\ mon_result' =
                     [mon_result EXCEPT ![w] =
                         MonReturned(IF _tasks[mon_task_id[w]] = NoSnap
                                        THEN UnknownSnap
                                        ELSE _tasks[mon_task_id[w]])]
    /\ mon_pc' = [mon_pc EXCEPT ![w] = "done"]
    /\ UNCHANGED <<_tasks, event_set, mon_task_id, eventLog, regLog, terminalSeen>>

MonNext ==
    \/ MonDispatch
    \/ \E w \in Waiters : MonRegister(w)
    \/ \E w \in Waiters : MonWake(w)
    \/ \E w \in Waiters : MonTimeout(w)
    \/ \E w \in Waiters : MonReturn(w)

\* the receive loop, for the specification in which termination is checked:
\* the same dispatch with the shorter stream
MonDispatchLive ==
    /\ Len(eventLog) < MaxLiveEvents
    /\ UNCHANGED nonMonVars
    /\ \E data \in Events :
          /\ \/ HandleProgress(data)
             \/ HandleComplete(data)
             \/ HandleError(data)
          /\ eventLog' = Append(eventLog, data)
    /\ UNCHANGED <<mon_pc, mon_task_id, mon_result, regLog>>

MonLiveNext ==
    \/ MonDispatchLive
    \/ \E w \in Waiters : MonRegister(w)
    \/ \E w \in Waiters : MonWake(w)
    \/ \E w \in Waiters : MonTimeout(w)
    \/ \E w \in Waiters : MonReturn(w)

\* a thread inside wait_for_task keeps running: event.wait(timeout) returns
\* when the Event is set or the timeout has passed, and the statements after
\* it are executed
MonFairness ==
    \A w \in Waiters :
        /\ WF_vars(MonWake(w))
        /\ WF_vars(MonTimeout(w))
        /\ WF_vars(MonReturn(w))

(***************************************************************************)
(* websocket.py: ExportProgressMonitor, statement by statement around      *)
(* `with self._lock:`                                                      *)
(*                                                                         *)
(* Threads: the receive loop ("recv") running the three handlers, the      *)
(* callers of wait_for_task ("w1" with an on_progress callback, "w2"       *)
(* without), and the poll_progress thread started for w1 ("p1").           *)
(***************************************************************************)
LockFree == "free"
WaiterThread(w) == IF w = 1 THEN "w1" ELSE "w2"
\* the waiter that passes on_progress
PolledWaiter == 1
NoFrame == [type |-> "none", taskId |-> "", progress |-> 0, fileName |-> "None",
            error |-> "None"]

LockInit ==
    /\ _lock = LockFree
    /\ lk_recv_pc = "idle"
    /\ lk_data = NoFrame
    /\ lk_frames = 0
    /\ lk_wait_pc = [w \in Waiters |-> "idle"]
    /\ lk_poll_pc = "none"
    /\ lk_status = NoSnap

\* the variables of the monitor model that the statement-level actions do
\* not use, and the other subsystems
nonLockVars == <<pollVars, launcherVars, autoTokenVars, requestVars, readyVars,
                 getClientVars,
                 mon_pc, eventLog, regLog, terminalSeen,
    handlerVars,
    connVars,
    bufferVars,
    callbackVars>>

\* `with self._lock:` entered by thread t
Acquire(t) ==
    /\ _lock = LockFree
    /\ _lock' = t
\* leaving the `with self._lock:` block
ReleaseKept(t) == UNCHANGED _lock
Release(t) == _lock' = LockFree

\* the receive loop calls the handler of the next frame:
\* `task_id = data.get("taskId")`, `if task_id:`
HandlerEnter ==
    /\ lk_recv_pc = "idle"
    /\ UNCHANGED nonLockVars
    /\ lk_frames < MaxLockFrames
    /\ lk_frames' = lk_frames + 1
    /\ \E data \in Events :
          /\ lk_data' = IF data.taskId # "" THEN data ELSE NoFrame
          /\ lk_recv_pc' = IF data.taskId # "" THEN "acquire" ELSE "idle"
    /\ UNCHANGED <<_lock, lk_wait_pc, lk_poll_pc, lk_status, _tasks, _task_events,
                   event_set, mon_task_id, mon_result>>

\* handler: `with self._lock:`
HandlerAcquire ==
    /\ lk_recv_pc = "acquire"
    /\ UNCHANGED nonLockVars
    /\ Acquire("recv")
    /\ lk_recv_pc' = "store"
    /\ UNCHANGED <<lk_data, lk_frames, lk_wait_pc, lk_poll_pc, lk_status, _tasks,
                   _task_events, event_set, mon_task_id, mon_result>>

\* handler: `self._tasks[task_id] = {...}`; _handle_progress leaves the
\* block after it
HandlerStore ==
    /\ lk_recv_pc = "store"
    /\ UNCHANGED nonLockVars
    /\ _tasks' = [_tasks EXCEPT ![lk_data.taskId] = SnapOf(lk_data)]
    /\ lk_recv_pc' = IF lk_data.type = "export_progress" THEN "release" ELSE "signal"
    /\ UNCHANGED <<_lock, lk_data, lk_frames, lk_wait_pc, lk_poll_pc, lk_status,
                   _task_events, event_set, mon_task_id, mon_result>>

\* _handle_complete / _handle_error:
\* `if task_id in self._task_events: self._task_events[task_id].set()`
HandlerSignal ==
    /\ lk_recv_pc = "signal"
    /\ UNCHANGED nonLockVars
    /\ event_set' = SetEventOf(lk_data.taskId)
    /\ lk_recv_pc' = "release"
    /\ UNCHANGED <<_lock, lk_data, lk_frames, lk_wait_pc, lk_poll_pc, lk_status,
                   _tasks, _task_events, mon_task_id, mon_result>>

\* handler: the `with` block ends, the handler returns
HandlerRelease ==
    /\ lk_recv_pc = "release"
    /\ UNCHANGED nonLockVars
    /\ Release("recv")
    /\ lk_recv_pc' = "idle"
    /\ lk_data' = NoFrame
    /\ UNCHANGED <<lk_frames, lk_wait_pc, lk_poll_pc, lk_status, _tasks,
                   _task_events, event_set, mon_task_id, mon_result>>

\* wait_for_task(task_id, timeout, on_progress): `event = threading.Event()`
WaitCall(w) ==
    /\ lk_wait_pc[w] = "idle"
    /\ UNCHANGED nonLockVars
    /\ \E id \in TaskIds : mon_task_id' = [mon_task_id EXCEPT ![w] = id]
    /\ lk_wait_pc' = [lk_wait_pc EXCEPT ![w] = "reg_acquire"]
    /\ UNCHANGED <<_lock, lk_recv_pc, lk_data, lk_frames, lk_poll_pc, lk_status,
                   _tasks, _task_events, event_set, mon_result>>

\* wait_for_task: `with self._lock:` (line 409)
WaitRegAcquire(w) ==
    /\ lk_wait_pc[w] = "reg_acquire"
    /\ UNCHANGED nonLockVars
    /\ Acquire(WaiterThread(w))
    /\ lk_wait_pc' = [lk_wait_pc EXCEPT ![w] = "reg_store"]
    /\ UNCHANGED <<lk_recv_pc, lk_data, lk_frames, lk_poll_pc, lk_status, _tasks,
                   _task_events, event_set, mon_task_id, mon_result>>

\* wait_for_task: `self._task_events[task_id] = event`
WaitRegStore(w) ==
    /\ lk_wait_pc[w] = "reg_store"
    /\ UNCHANGED nonLockVars
    /\ _task_events' = [_task_events EXCEPT ![mon_task_id[w]] = w]
    /\ lk_wait_pc' = [lk_wait_pc EXCEPT ![w] = "reg_release"]
    /\ UNCHANGED <<_lock, lk_recv_pc, lk_data, lk_frames, lk_poll_pc, lk_status,
                   _tasks, event_set, mon_task_id, mon_result>>

\* wait_for_task: the registration block ends; `if on_progress:` starts the
\* poll_progress thread; the caller reaches `event.wait(timeout)`
WaitRegRelease(w) ==
    /\ lk_wait_pc[w] = "reg_release"
    /\ UNCHANGED nonLockVars
    /\ Release(WaiterThread(w))
    /\ lk_wait_pc' = [lk_wait_pc EXCEPT ![w] = "waiting"]
    /\ lk_poll_pc' = IF w = PolledWaiter THEN "check" ELSE lk_poll_pc
    /\ UNCHANGED <<lk_recv_pc, lk_data, lk_frames, lk_status, _tasks,
                   _task_events, event_set, mon_task_id, mon_result>>

\* `event.wait(timeout)` returns True
WaitWoken(w) ==
    /\ lk_wait_pc[w] = "waiting"
    /\ UNCHANGED nonLockVars
    /\ event_set[w]
    /\ lk_wait_pc' = [lk_wait_pc EXCEPT ![w] = "ret_acquire"]
    /\ UNCHANGED <<_lock, lk_recv_pc, lk_data, lk_frames, lk_poll_pc, lk_status,
                   _tasks, _task_events, event_set, mon_task_id, mon_result>>

\* `event.wait(timeout)` returns False: TimeoutError
WaitTimesOut(w) ==
    /\ lk_wait_pc[w] = "waiting"
    /\ UNCHANGED nonLockVars
    /\ ~event_set[w]
    /\ mon_result' = [mon_result EXCEPT ![w] = MonTimeoutError(mon_task_id[w])]
    /\ lk_wait_pc' = [lk_wait_pc EXCEPT ![w] = "done"]
    /\ UNCHANGED <<_lock, lk_recv_pc, lk_data, lk_frames, lk_poll_pc, lk_status,
                   _tasks, _task_events, event_set, mon_task_id>>

\* wait_for_task: `with self._lock:` (line 428)
WaitRetAcquire(w) ==
    /\ lk_wait_pc[w] = "ret_acquire"
    /\ UNCHANGED nonLockVars
    /\ Acquire(WaiterThread(w))
    /\ lk_wait_pc' = [lk_wait_pc EXCEPT ![w] = "ret_del"]
    /\ UNCHANGED <<lk_recv_pc, lk_data, lk_frames, lk_poll_pc, lk_status, _tasks,
                   _task_events, event_set, mon_task_id, mon_result>>

\* wait_for_task: `del self._task_events[task_id]`; a KeyError leaves the
\* `with` block, which releases the lock
WaitRetDel(w) ==
    /\ lk_wait_pc[w] = "ret_del"
    /\ UNCHANGED nonLockVars
    /\ IF _task_events[mon_task_id[w]] = 0
          THEN /\ mon_result' = [mon_result EXCEPT ![w] = MonKeyError(mon_task_id[w])]
               /\ Release(WaiterThread(w))
               /\ lk_wait_pc' = [lk_wait_pc EXCEPT ![w] = "done"]
               /\ UNCHANGED _task_events
          ELSE /\ _task_events' = [_task_events EXCEPT ![mon_task_id[w]] = 0]
               /\ lk_wait_pc' = [lk_wait_pc EXCEPT ![w] = "ret_get"]
               /\ UNCHANGED <<_lock, mon_result>>
    /\ UNCHANGED <<lk_recv_pc, lk_data, lk_frames, lk_poll_pc, lk_status, _tasks,
                   event_set, mon_task_id>>

\* wait_for_task: `return self._tasks.get(task_id, {"status": "unknown"})`;
\* the return leaves the `with` block
WaitRetGet(w) ==
    /\ lk_wait_pc[w] = "ret_get"
    /\ UNCHANGED nonLockVars
    /\ mon_result' =
          [mon_result EXCEPT ![w] =
              MonReturned(IF _tasks[mon_task_id[w]] = NoSnap
                             THEN UnknownSnap
                             ELSE _tasks[mon_task_id[w]])]
    /\ Release(WaiterThread(w))
    /\ lk_wait_pc' = [lk_wait_pc EXCEPT ![w] = "done"]
    /\ UNCHANGED <<lk_recv_pc, lk_data, lk_frames, lk_poll_pc, lk_status, _tasks,
                   _task_events, event_set, mon_task_id>>

\* poll_progress: `while not event.is_set():`
PollCheck ==
    /\ lk_poll_pc = "check"
    /\ UNCHANGED nonLockVars
    /\ lk_poll_pc' = IF event_set[PolledWaiter] THEN "done" ELSE "acquire"
    /\ UNCHANGED <<_lock, lk_recv_pc, lk_data, lk_frames, lk_wait_pc, lk_status,
                   _tasks, _task_events, event_set, mon_task_id, mon_result>>

\* get_task_status: `with self._lock:`
PollAcquire ==
    /\ lk_poll_pc = "acquire"
    /\ UNCHANGED nonLockVars
    /\ Acquire("p1")
    /\ lk_poll_pc' = "get"
    /\ UNCHANGED <<lk_recv_pc, lk_data, lk_frames, lk_wait_pc, lk_status, _tasks,
                   _task_events, event_set, mon_task_id, mon_result>>

\* get_task_status: `return self._tasks.get(task_id)`; the return leaves the
\* `with` block; then `if status:` chooses between the callback and the sleep
PollGet ==
    /\ lk_poll_pc = "get"
    /\ UNCHANGED nonLockVars
    /\ lk_status' = _tasks[mon_task_id[PolledWaiter]]
    /\ Release("p1")
    /\ lk_poll_pc' = IF _tasks[mon_task_id[PolledWaiter]] # NoSnap
                        THEN "callback" ELSE "sleep"
    /\ UNCHANGED <<lk_recv_pc, lk_data, lk_frames, lk_wait_pc, _tasks,
                   _task_events, event_set, mon_task_id, mon_result>>

\* poll_progress: `on_progress(status)`, the user's callback
PollCallback ==
    /\ lk_poll_pc = "callback"
    /\ UNCHANGED nonLockVars
    /\ lk_poll_pc' = "sleep"
    /\ lk_status' = NoSnap
    /\ UNCHANGED <<_lock, lk_recv_pc, lk_data, lk_frames, lk_wait_pc, _tasks,
                   _task_events, event_set, mon_task_id, mon_result>>

\* poll_progress: `time.sleep(1)`
PollSleep ==
    /\ lk_poll_pc = "sleep"
    /\ UNCHANGED nonLockVars
    /\ lk_poll_pc' = "check"
    /\ UNCHANGED <<_lock, lk_recv_pc, lk_data, lk_frames, lk_wait_pc, lk_status,
                   _tasks, _task_events, event_set, mon_task_id, mon_result>>

LockNext ==
    \/ HandlerEnter
    \/ HandlerAcquire
    \/ HandlerStore
    \/ HandlerSignal
    \/ HandlerRelease
    \/ \E w \in Waiters : WaitCall(w)
    \/ \E w \in Waiters : WaitRegAcquire(w)
    \/ \E w \in Waiters : WaitRegStore(w)
    \/ \E w \in Waiters : WaitRegRelease(w)
    \/ \E w \in Waiters : WaitWoken(w)
    \/ \E w \in Waiters : WaitTimesOut(w)
    \/ \E w \in Waiters : WaitRetAcquire(w)
    \/ \E w \in Waiters : WaitRetDel(w)
    \/ \E w \in Waiters : WaitRetGet(w)
    \/ PollCheck
    \/ PollAcquire
    \/ PollGet
    \/ PollCallback
    \/ PollSleep

(***************************************************************************)
(* auto_token.py: auto_discover_token, create_client_with_auto_token       *)
(***************************************************************************)
\* values of an Optional[str] token: None, the empty string, or a text that
\* names where it came from
ArgTokens == {"None", "", "tok_arg"}
EnvTokens == {"None", "", "tok_env"}
\* ~/.qq-chat-exporter/security.json: missing, unreadable or not JSON, an
\* empty object, an object without "accessToken", with an empty one, with one
ConfigFiles == {"missing", "invalid", "empty_object", "no_key", "empty_token",
                "with_token"}

\* `if x:` for an Optional[str]
Truthy(x) == x \notin {"None", ""}

\* load_security_config(): the dict, or None
LoadSecurityConfig(file) ==
    IF file \in {"missing", "invalid"} THEN "None" ELSE file
\* get_token_from_config(): `if config: return config.get("accessToken")`
GetTokenFromConfig(file) ==
    LET config == LoadSecurityConfig(file)
    IN  IF config \in {"None", "empty_object"} THEN "None"
        ELSE IF config = "no_key" THEN "None"
        ELSE IF config = "empty_token" THEN ""
        ELSE "tok_cfg"

\* auto_discover_token(host, port): the environment variable, then the
\* config file
AutoDiscoverTokenConfigFirst(env, file) ==
    IF Truthy(GetTokenFromConfig(file)) THEN GetTokenFromConfig(file)
    ELSE IF Truthy(env) THEN env
    ELSE "None"
AutoDiscoverToken(env, file) ==
    IF Truthy(env) THEN env
    ELSE IF Truthy(GetTokenFromConfig(file)) THEN GetTokenFromConfig(file)
    ELSE "None"

\* what create_client_with_auto_token gives back
NoClientResult == [kind |-> "none", token |-> "None"]
ClientWith(tok) == [kind |-> "client", token |-> tok]
AuthenticationErrorRaised == [kind |-> "AuthenticationError", token |-> "None"]

AutoTokenInit ==
    /\ at_pc = "idle"
    /\ at_token = "None"
    /\ at_auto_discover = TRUE
    /\ at_env = "None"
    /\ at_config = "missing"
    /\ at_final_token = "None"
    /\ at_result = NoClientResult

\* create_client_with_auto_token(host, port, token, auto_discover) is called
\* in some environment; `final_token = token`
CreateClientCall ==
    /\ at_pc \in {"idle", "done"}
    /\ UNCHANGED nonAutoTokenVars
    /\ \E tok \in ArgTokens, auto \in BOOLEAN, env \in EnvTokens, file \in ConfigFiles :
          /\ at_token' = tok
          /\ at_auto_discover' = auto
          /\ at_env' = env
          /\ at_config' = file
          /\ at_final_token' = tok
    /\ at_result' = NoClientResult
    /\ at_pc' = "discover"

\* `if not final_token and auto_discover:
\*      final_token = auto_discover_token(host, port)`
CreateClientDiscover ==
    /\ at_pc = "discover"
    /\ UNCHANGED nonAutoTokenVars
    /\ at_final_token' =
          IF ~Truthy(at_final_token) /\ at_auto_discover
             THEN AutoDiscoverToken(at_env, at_config)
             ELSE at_final_token
    /\ at_pc' = "decide"
    /\ UNCHANGED <<at_token, at_auto_discover, at_env, at_config, at_result>>

\* `if not final_token: raise AuthenticationError(...)`, else
\* `return NapCatQCE(token=final_token, ...)`
CreateClientDecide ==
    /\ at_pc = "decide"
    /\ UNCHANGED nonAutoTokenVars
    /\ at_result' = IF ~Truthy(at_final_token)
                       THEN AuthenticationErrorRaised
                       ELSE ClientWith(at_final_token)
    /\ at_pc' = "done"
    /\ UNCHANGED <<at_token, at_auto_discover, at_env, at_config, at_final_token>>

AutoTokenNext ==
    \/ CreateClientCall
    \/ CreateClientDiscover
    \/ CreateClientDecide

(***************************************************************************)
(* client.py: NapCatQCE._request                                           *)
(***************************************************************************)
\* response.status_code
StatusCodes == {200, 400, 401, 403, 404, 500}
\* the "error" object of the envelope; "absent" marks a missing key
ErrorTypes == {"absent", "AUTH_ERROR", "VALIDATION_ERROR", "TASK_NOT_FOUND",
               "EXPORT_ERROR"}
ErrorMessages == {"absent", "bad peer"}
ContextCodes == {"absent", "TASK_NOT_FOUND", "E42"}
ContextTaskIds == {"absent", "A"}
ErrorObjects ==
    [type : ErrorTypes, message : ErrorMessages, code : ContextCodes,
     taskId : ContextTaskIds]
\* `data.get("error", {})` when the key is missing
EmptyError == [type |-> "absent", message |-> "absent", code |-> "absent",
               taskId |-> "absent"]
\* the response body: text that is not JSON, or an object with an optional
\* "success", an optional "data" and an optional "error"
NotJson == [json |-> FALSE, success |-> "absent", hasData |-> FALSE,
            hasError |-> FALSE, error |-> EmptyError]
JsonBodies ==
    [json : {TRUE}, success : {"absent", "true", "false"}, hasData : BOOLEAN,
     hasError : {FALSE}, error : {EmptyError}]
    \cup
    [json : {TRUE}, success : {"absent", "true", "false"}, hasData : BOOLEAN,
     hasError : {TRUE}, error : ErrorObjects]
Bodies == {NotJson} \cup JsonBodies
Responses == [status : StatusCodes, body : Bodies]
NoResponse == [status |-> 0, body |-> NotJson]

\* `response.status_code == 401` / `== 403`
IsAuthStatusOnly401(status) == status = 401
IsAuthStatus(status) == status \in {401, 403}

\* `error.get("type", "UNKNOWN_ERROR")`
ErrorTypeOf(error) == IF error.type = "absent" THEN "UNKNOWN_ERROR" ELSE error.type
\* `error.get("message", "未知错误")`
ErrorMessageOf(error) ==
    IF error.message = "absent" THEN "unknown error" ELSE error.message
\* `error.get("context", {}).get("code", error_type)`
ErrorCodeIgnoresContext(error) == ErrorTypeOf(error)
ErrorCodeOf(error) == IF error.code = "absent" THEN ErrorTypeOf(error) ELSE error.code
\* `error.get("context", {}).get("taskId", "unknown")`
ErrorTaskIdOf(error) == IF error.taskId = "absent" THEN "unknown" ELSE error.taskId

\* how a _request call ends
NoOutcome ==
    [kind |-> "none", message |-> "", code |-> "", status |-> 0, task_id |-> "",
     value |-> ""]
Returned(v) == [NoOutcome EXCEPT !.kind = "return", !.value = v]
NetworkErrorRaised ==
    [NoOutcome EXCEPT !.kind = "NetworkError", !.code = "NETWORK_ERROR"]
\* AuthenticationError(message, code="AUTH_ERROR")
AuthenticationErrorOf(message, code) ==
    [NoOutcome EXCEPT !.kind = "AuthenticationError", !.message = message,
                      !.code = code]
\* ValidationError(message, code)
ValidationErrorOf(message, code) ==
    [NoOutcome EXCEPT !.kind = "ValidationError", !.message = message, !.code = code]
\* TaskNotFoundError(task_id)
TaskNotFoundErrorOf(id) ==
    [NoOutcome EXCEPT !.kind = "TaskNotFoundError", !.code = "TASK_NOT_FOUND",
                      !.task_id = id]
\* APIError(message, code, status_code)
APIErrorOf(message, code, status) ==
    [NoOutcome EXCEPT !.kind = "APIError", !.message = message, !.code = code,
                      !.status = status]

\* lines 884-902: the error raised for a body with success false
EnvelopeError(response) ==
    LET error == IF response.body.hasError THEN response.body.error ELSE EmptyError
    IN  IF ErrorTypeOf(error) = "AUTH_ERROR"
           THEN AuthenticationErrorOf(ErrorMessageOf(error), ErrorCodeOf(error))
        ELSE IF ErrorTypeOf(error) = "VALIDATION_ERROR"
           THEN ValidationErrorOf(ErrorMessageOf(error), ErrorCodeOf(error))
        ELSE IF ErrorCodeOf(error) = "TASK_NOT_FOUND"
           THEN TaskNotFoundErrorOf(ErrorTaskIdOf(error))
        ELSE APIErrorOf(ErrorMessageOf(error), ErrorCodeOf(error), response.status)

RequestInit ==
    /\ rq_pc = "idle"
    /\ rq_response = NoResponse
    /\ rq_parsed = FALSE
    /\ rq_result = NoOutcome

\* _request(method, endpoint, ...): `self._session.request(...)` is issued
RequestCall ==
    /\ rq_pc \in {"idle", "done"}
    /\ UNCHANGED nonRequestVars
    /\ rq_pc' = "sent"
    /\ rq_response' = NoResponse
    /\ rq_parsed' = FALSE
    /\ rq_result' = NoOutcome

\* the transport raises ConnectionError, Timeout or another
\* RequestException: NetworkError
RequestFails ==
    /\ rq_pc = "sent"
    /\ UNCHANGED nonRequestVars
    /\ rq_result' = NetworkErrorRaised
    /\ rq_pc' = "done"
    /\ UNCHANGED <<rq_response, rq_parsed>>

\* the transport returns a response
RequestResponds ==
    /\ rq_pc = "sent"
    /\ UNCHANGED nonRequestVars
    /\ \E response \in Responses : rq_response' = response
    /\ rq_pc' = "status"
    /\ UNCHANGED <<rq_parsed, rq_result>>

\* `if response.status_code == 401: raise ... elif ... == 403: raise ...`
RequestCheckStatus ==
    /\ rq_pc = "status"
    /\ UNCHANGED nonRequestVars
    /\ IF IsAuthStatus(rq_response.status)
          THEN /\ rq_result' =
                     AuthenticationErrorOf(IF rq_response.status = 401
                                              THEN "auth failed" ELSE "access denied",
                                           "AUTH_ERROR")
               /\ rq_pc' = "done"
          ELSE /\ rq_pc' = "parse"
               /\ UNCHANGED rq_result
    /\ UNCHANGED <<rq_response, rq_parsed>>

\* `data = response.json()`; on JSONDecodeError APIError for a status >= 400
\* and `return {}` otherwise
RequestParse ==
    /\ rq_pc = "parse"
    /\ UNCHANGED nonRequestVars
    /\ rq_parsed' = TRUE
    /\ IF rq_response.body.json
          THEN /\ rq_pc' = "envelope"
               /\ UNCHANGED rq_result
          ELSE /\ rq_pc' = "done"
               /\ rq_result' =
                     IF rq_response.status >= 400
                        THEN APIErrorOf("server error", "API_ERROR", rq_response.status)
                        ELSE Returned("empty_dict")
    /\ UNCHANGED rq_response

\* `if not data.get("success", True): ...raise...`, else
\* `return data.get("data", data)`
RequestCheckEnvelope ==
    /\ rq_pc = "envelope"
    /\ UNCHANGED nonRequestVars
    /\ rq_result' =
          IF rq_response.body.success = "false"
             THEN EnvelopeError(rq_response)
             ELSE Returned(IF rq_response.body.hasData THEN "data" ELSE "body")
    /\ rq_pc' = "done"
    /\ UNCHANGED <<rq_response, rq_parsed>>

RequestNext ==
    \/ RequestCall
    \/ RequestFails
    \/ RequestResponds
    \/ RequestCheckStatus
    \/ RequestParse
    \/ RequestCheckEnvelope

(***************************************************************************)
(* launcher.py: text of the output lines and the line classifier           *)
(*                                                                         *)
(* A line is a sequence of atoms. The atoms that matter to _process_line   *)
(* are kept apart: ":" , the white space " " and "\n", the markers         *)
(*   "Redirected"    for  已重定向到命名管道                                  *)
(*   "AccessTokenZh" for  访问令牌                                           *)
(*   "AccessToken"   for  Access Token                                     *)
(*   "Started"       for  QQ聊天记录导出工具已启动                            *)
(*   "ErrorZh"       for  错误                                              *)
(* a pipe path "pipe_x" for \\.\pipe\x, and words without markers.         *)
(***************************************************************************)
None == <<>>
Some(x) == <<x>>

IsSpace(a) == a \in {" ", "\n"}

\* str.strip()
RECURSIVE LStrip(_)
LStrip(s) == IF s # <<>> /\ IsSpace(Head(s)) THEN LStrip(Tail(s)) ELSE s
RECURSIVE RStrip(_)
RStrip(s) ==
    IF s # <<>> /\ IsSpace(s[Len(s)]) THEN RStrip(SubSeq(s, 1, Len(s) - 1)) ELSE s
Strip(s) == RStrip(LStrip(s))

\* `marker in line`
Contains(s, a) == \E i \in 1..Len(s) : s[i] = a

\* line.split(":")
RECURSIVE Split(_)
Split(s) ==
    IF ~Contains(s, ":")
       THEN <<s>>
       ELSE LET i == CHOOSE k \in 1..Len(s) :
                        s[k] = ":" /\ \A j \in 1..(k - 1) : s[j] # ":"
            IN  <<SubSeq(s, 1, i - 1)>> \o Split(SubSeq(s, i + 1, Len(s)))

\* the atoms that begin with \\.\pipe\ followed by at least one character
PipePaths == {"pipe_x"}

\* the longest run of non-space atoms of s starting at index j
RECURSIVE RunFrom(_, _)
RunFrom(s, j) ==
    IF j > Len(s) \/ IsSpace(s[j]) THEN <<>> ELSE <<s[j]>> \o RunFrom(s, j + 1)

\* index of the first non-space atom of s at or after j (Len(s) + 1 if none)
RECURSIVE SkipSpaces(_, _)
SkipSpaces(s, j) ==
    IF j <= Len(s) /\ IsSpace(s[j]) THEN SkipSpaces(s, j + 1) ELSE j

\* re.search(r'已重定向到命名管道:\s*(\\\\.\\pipe\\[^\s]+)', line): the positions
\* where the pattern matches
PipeMatchAt(s) ==
    {i \in 1..Len(s) :
        /\ s[i] = "Redirected"
        /\ i + 1 <= Len(s)
        /\ s[i + 1] = ":"
        /\ SkipSpaces(s, i + 2) <= Len(s)
        /\ s[SkipSpaces(s, i + 2)] \in PipePaths}
\* pipe_match.group(1) of the leftmost match, None without a match
PipeMatch(s) ==
    IF PipeMatchAt(s) = {}
       THEN None
       ELSE LET i == CHOOSE k \in PipeMatchAt(s) : \A m \in PipeMatchAt(s) : k <= m
            IN  Some(RunFrom(s, SkipSpaces(s, i + 2)))

\* `"访问令牌" in line or "Access Token" in line`
HasTokenMarker(s) == Contains(s, "AccessTokenZh") \/ Contains(s, "AccessToken")
\* `parts = line.split(":")`, `len(parts) >= 2`
HasTokenParts(s) == Len(Split(s)) >= 2
\* `parts[-1].strip()`
FirstPartToken(s) == Strip(Split(s)[2])
ExtractToken(s) == Strip(Split(s)[Len(Split(s))])
\* `"QQ聊天记录导出工具已启动" in line`
HasStartedMarkerWholeLine(s) == s = <<"Started">>
HasStartedMarker(s) == Contains(s, "Started")
\* `"error" in line.lower() or "错误" in line`
HasErrorMarkerCaseSensitive(s) ==
    Contains(s, "error") \/ Contains(s, "ErrorZh")
HasErrorMarker(s) ==
    Contains(s, "error") \/ Contains(s, "ERROR") \/ Contains(s, "ErrorZh")

\* the lines the child process and the side-channel may deliver
InputLines ==
    { <<"Redirected", ":", " ", "pipe_x", "\n">>,
      <<"[12", ":", "30]", " ", "AccessTokenZh", ":", " ", "abc123", "\n">>,
      <<"Started", "\n">>,
      <<"Started", " ", "AccessToken", ":", "xyz", "\n">>,
      <<"ERROR", ":", " ", "boom", "\n">>,
      <<" ", "\n">> }

(***************************************************************************)
(* launcher.py: NapCatQCELauncher                                          *)
(***************************************************************************)
\* the child processes, in the order start() spawns them; the _read_output
\* thread of a child carries the same index
Children == 1..MaxStarts
\* the _read_named_pipe threads, in the order _process_line spawns them
PipeThreads == 1..MaxLines

\* the state __init__ leaves and stop() restores
Stopped ==
    /\ ~_running
    /\ ~_ready
    /\ _token = None
    /\ _process = 0
    /\ _pipe_name = None
    /\ _pipe_handle = 0

\* the last call of start() or stop() by the caller's thread: what it raised,
\* and whether the supervisor was Stopped when it was made
NoCall == [op |-> "none", raised |-> "None", onStopped |-> FALSE]
Call(op, raised) == [op |-> op, raised |-> raised, onStopped |-> Stopped]

NoCls == [line |-> <<>>, ready |-> <<>>, errors |-> 0, outputs |-> 0,
          spawned |-> 0]

LauncherInit ==
    /\ platform \in {"win32", "other"}
    /\ callbacks = {"ready", "error", "output"}
    /\ _process = 0
    /\ _output_thread = 0
    /\ _pipe_thread = 0
    /\ _running = FALSE
    /\ _ready = FALSE
    /\ _token = None
    /\ _pipe_name = None
    /\ _pipe_handle = 0
    /\ child = [g \in Children |-> "none"]
    /\ rd_pc = [g \in Children |-> "none"]
    /\ rd_line = [g \in Children |-> <<>>]
    /\ pt_pc = [k \in PipeThreads |-> "none"]
    /\ pt_line = [k \in PipeThreads |-> <<>>]
    /\ linesRead = 0
    /\ ctl_pc = "idle"
    /\ lastCall = NoCall
    /\ pipeSpawned = 0
    /\ lastCls = NoCls

\* number of children spawned / pipe threads created so far
Spawned == Cardinality({g \in Children : child[g] # "none"})
PipeCreated == Cardinality({k \in PipeThreads : pt_pc[k] # "none"})

\* _process_line(line): the whole classification of one line; threads is
\* pt_pc with the calling thread's own move applied
ProcessLine(line, threads) ==
    LET l == Strip(line)
        pm == PipeMatch(l)
        tokHit == HasTokenMarker(l) /\ HasTokenParts(l)
        tok == IF tokHit THEN Some(ExtractToken(l)) ELSE _token
        startHit == HasStartedMarker(l)
        cbReady == "ready" \in callbacks
        readyCalls == (IF tokHit /\ cbReady THEN <<tok>> ELSE <<>>)
                      \o (IF startHit /\ cbReady THEN <<tok>> ELSE <<>>)
    IN  IF l = <<>>
           THEN /\ lastCls' = [NoCls EXCEPT !.line = line]
                /\ pt_pc' = threads
                /\ UNCHANGED <<_pipe_name, _pipe_thread, pipeSpawned, _token,
                               _ready>>
           ELSE /\ IF pm # None
                      THEN /\ _pipe_name' = pm
                           /\ _pipe_thread' = PipeCreated + 1
                           /\ pt_pc' = [threads EXCEPT ![PipeCreated + 1] = "start"]
                           /\ pipeSpawned' = pipeSpawned + 1
                      ELSE /\ pt_pc' = threads
                           /\ UNCHANGED <<_pipe_name, _pipe_thread, pipeSpawned>>
                /\ _token' = tok
                /\ _ready' = (_ready \/ tokHit \/ startHit)
                /\ lastCls' =
                      [line |-> line,
                       ready |-> readyCalls,
                       errors |-> IF HasErrorMarker(l) /\ "error" \in callbacks
                                     THEN 1 ELSE 0,
                       outputs |-> IF "output" \in callbacks THEN 1 ELSE 0,
                       spawned |-> IF pm # None THEN 1 ELSE 0]

\* _read_output: `for line in iter(self._process.stdout.readline, "")` yields
\* the next line, then `if not self._running: break`
RdReadLine(g) ==
    /\ rd_pc[g] = "read"
    /\ UNCHANGED nonLauncherVars
    /\ linesRead < MaxLines
    /\ \E line \in InputLines :
          rd_line' = [rd_line EXCEPT ![g] = IF _running THEN line ELSE <<>>]
    /\ linesRead' = linesRead + 1
    /\ rd_pc' = [rd_pc EXCEPT ![g] = IF _running THEN "classify" ELSE "done"]
    /\ UNCHANGED <<platform, callbacks, _process, _output_thread, _pipe_thread,
                   _running, _ready, _token, _pipe_name, _pipe_handle, child,
                   pt_pc, pt_line, ctl_pc, lastCall,
                   pipeSpawned, lastCls>>

\* _read_output: readline returns "" once the child has exited and its
\* output is drained; the thread ends
RdEndOfFile(g) ==
    /\ rd_pc[g] = "read"
    /\ UNCHANGED nonLauncherVars
    /\ child[g] = "exited"
    /\ rd_pc' = [rd_pc EXCEPT ![g] = "done"]
    /\ UNCHANGED <<platform, callbacks, _process, _output_thread, _pipe_thread,
                   _running, _ready, _token, _pipe_name, _pipe_handle, child,
                   rd_line, pt_pc, pt_line, linesRead, ctl_pc, lastCall, pipeSpawned, lastCls>>

\* _read_output: `self._process_line(line)`
RdClassify(g) ==
    /\ rd_pc[g] = "classify"
    /\ UNCHANGED nonLauncherVars
    /\ ProcessLine(rd_line[g], pt_pc)
    /\ rd_pc' = [rd_pc EXCEPT ![g] = "read"]
    /\ rd_line' = [rd_line EXCEPT ![g] = <<>>]
    /\ UNCHANGED <<platform, callbacks, _process, _output_thread, _running,
                   _pipe_handle, child, pt_line, linesRead, ctl_pc,
                   lastCall>>

\* the child process ends by itself
ChildExits(g) ==
    /\ child[g] = "alive"
    /\ UNCHANGED nonLauncherVars
    /\ child' = [child EXCEPT ![g] = "exited"]
    /\ UNCHANGED <<platform, callbacks, _process, _output_thread, _pipe_thread,
                   _running, _ready, _token, _pipe_name, _pipe_handle, rd_pc,
                   rd_line, pt_pc, pt_line, linesRead, ctl_pc, lastCall, pipeSpawned, lastCls>>

\* _read_named_pipe: `if sys.platform != "win32" or not self._pipe_name: return`,
\* else `time.sleep(0.5)`
PtStart(k) ==
    /\ pt_pc[k] = "start"
    /\ UNCHANGED nonLauncherVars
    /\ pt_pc' = [pt_pc EXCEPT ![k] =
                    IF platform # "win32" \/ _pipe_name = None
                       THEN "done" ELSE "open"]
    /\ UNCHANGED <<platform, callbacks, _process, _output_thread, _pipe_thread,
                   _running, _ready, _token, _pipe_name, _pipe_handle, child,
                   rd_pc, rd_line, pt_line, linesRead, ctl_pc, lastCall, pipeSpawned, lastCls>>

\* the `finally:` of _read_named_pipe:
\* `if self._pipe_handle: CloseHandle(self._pipe_handle); self._pipe_handle = None`
PtFinally == _pipe_handle' = 0

\* CreateFileW returns INVALID_HANDLE_VALUE and the reader thread is ended as
\* if the failure were fatal to the supervision: the primary-stream readers
\* end with it
PtOpenFailsEndsReaders(k) ==
    /\ pt_pc[k] = "open"
    /\ UNCHANGED nonLauncherVars
    /\ PtFinally
    /\ pt_pc' = [pt_pc EXCEPT ![k] = "open_failed"]
    /\ rd_pc' = [g \in Children |-> IF rd_pc[g] = "none" THEN "none" ELSE "done"]
    /\ UNCHANGED <<platform, callbacks, _process, _output_thread, _pipe_thread,
                   _running, _ready, _token, _pipe_name, child, rd_line,
                   pt_line, linesRead, ctl_pc, lastCall,
                   pipeSpawned, lastCls>>

\* CreateFileW returns INVALID_HANDLE_VALUE: `self._on_error(...)` is told
\* the error code, `return` runs the finally block; the thread ends at
\* "open_failed", the position after the report
PtOpenFails(k) ==
    /\ pt_pc[k] = "open"
    /\ UNCHANGED nonLauncherVars
    /\ PtFinally
    /\ pt_pc' = [pt_pc EXCEPT ![k] = "open_failed"]
    /\ UNCHANGED <<platform, callbacks, _process, _output_thread, _pipe_thread,
                   _running, _ready, _token, _pipe_name, child, rd_pc, rd_line,
                   pt_line, linesRead, ctl_pc, lastCall,
                   pipeSpawned, lastCls>>

\* CreateFileW succeeds: `self._pipe_handle = handle`
PtOpens(k) ==
    /\ pt_pc[k] = "open"
    /\ UNCHANGED nonLauncherVars
    /\ _pipe_name # None
    /\ _pipe_handle' = k
    /\ pt_pc' = [pt_pc EXCEPT ![k] = "loop"]
    /\ UNCHANGED <<platform, callbacks, _process, _output_thread, _pipe_thread,
                   _running, _ready, _token, _pipe_name, child, rd_pc, rd_line,
                   pt_line, linesRead, ctl_pc, lastCall,
                   pipeSpawned, lastCls>>

\* `while self._running:`; leaving the loop runs the finally block
PtLoop(k) ==
    /\ pt_pc[k] = "loop"
    /\ UNCHANGED nonLauncherVars
    /\ IF _running
          THEN /\ pt_pc' = [pt_pc EXCEPT ![k] = "reading"]
               /\ UNCHANGED _pipe_handle
          ELSE /\ pt_pc' = [pt_pc EXCEPT ![k] = "done"]
               /\ PtFinally
    /\ UNCHANGED <<platform, callbacks, _process, _output_thread, _pipe_thread,
                   _running, _ready, _token, _pipe_name, child, rd_pc, rd_line,
                   pt_line, linesRead, ctl_pc, lastCall,
                   pipeSpawned, lastCls>>

\* ReadFile returns a chunk holding at least one complete line
PtReadFile(k) ==
    /\ pt_pc[k] = "reading"
    /\ UNCHANGED nonLauncherVars
    /\ linesRead < MaxLines
    /\ \E line \in InputLines : pt_line' = [pt_line EXCEPT ![k] = line]
    /\ linesRead' = linesRead + 1
    /\ pt_pc' = [pt_pc EXCEPT ![k] = "classify"]
    /\ UNCHANGED <<platform, callbacks, _process, _output_thread, _pipe_thread,
                   _running, _ready, _token, _pipe_name, _pipe_handle, child,
                   rd_pc, rd_line, ctl_pc, lastCall, pipeSpawned,
                   lastCls>>

\* ReadFile fails with an error other than ERROR_MORE_DATA (the pipe is
\* broken or its handle was closed): `break`, then the finally block
PtReadFails(k) ==
    /\ pt_pc[k] = "reading"
    /\ UNCHANGED nonLauncherVars
    /\ \E g \in Children : child[g] = "exited"
    /\ PtFinally
    /\ pt_pc' = [pt_pc EXCEPT ![k] = "done"]
    /\ UNCHANGED <<platform, callbacks, _process, _output_thread, _pipe_thread,
                   _running, _ready, _token, _pipe_name, child, rd_pc, rd_line,
                   pt_line, linesRead, ctl_pc, lastCall,
                   pipeSpawned, lastCls>>

\* `for line in lines[:-1]: self._process_line(line)`: one line of the chunk;
\* the chunk either holds a further complete line or the loop continues
PtClassify(k) ==
    /\ pt_pc[k] = "classify"
    /\ UNCHANGED nonLauncherVars
    /\ \/ /\ linesRead < MaxLines
          /\ ProcessLine(pt_line[k], pt_pc)
          /\ \E line \in InputLines : pt_line' = [pt_line EXCEPT ![k] = line]
          /\ linesRead' = linesRead + 1
       \/ /\ ProcessLine(pt_line[k], [pt_pc EXCEPT ![k] = "loop"])
          /\ pt_line' = [pt_line EXCEPT ![k] = <<>>]
          /\ UNCHANGED linesRead
    /\ UNCHANGED <<platform, callbacks, _process, _output_thread, _running,
                   _pipe_handle, child, rd_pc, rd_line, ctl_pc, lastCall>>

\* start(): `if self._running: return True`
StartWhileRunning ==
    /\ ctl_pc = "idle"
    /\ UNCHANGED nonLauncherVars
    /\ _running
    /\ lastCall' = Call("start", "None")
    /\ UNCHANGED <<platform, callbacks, _process, _output_thread, _pipe_thread,
                   _running, _ready, _token, _pipe_name, _pipe_handle, child,
                   rd_pc, rd_line, pt_pc, pt_line, linesRead, ctl_pc,
                   pipeSpawned, lastCls>>

\* start(): the launch script is missing or subprocess.Popen raises:
\* LauncherError
StartFailsMarkedRunning ==
    /\ ctl_pc = "idle"
    /\ UNCHANGED nonLauncherVars
    /\ ~_running
    /\ lastCall' = Call("start", "LauncherError")
    /\ _running' = TRUE
    /\ UNCHANGED <<platform, callbacks, _process, _output_thread, _pipe_thread,
                   _ready, _token, _pipe_name, _pipe_handle, child,
                   rd_pc, rd_line, pt_pc, pt_line, linesRead, ctl_pc,
                   pipeSpawned, lastCls>>
StartFails ==
    /\ ctl_pc = "idle"
    /\ UNCHANGED nonLauncherVars
    /\ ~_running
    /\ lastCall' = Call("start", "LauncherError")
    /\ UNCHANGED <<platform, callbacks, _process, _output_thread, _pipe_thread,
                   _running, _ready, _token, _pipe_name, _pipe_handle, child,
                   rd_pc, rd_line, pt_pc, pt_line, linesRead, ctl_pc,
                   pipeSpawned, lastCls>>

\* start(): `self._process = subprocess.Popen(...)`, `self._running = True`,
\* the _read_output thread is created and started
StartSpawns ==
    /\ ctl_pc = "idle"
    /\ UNCHANGED nonLauncherVars
    /\ ~_running
    /\ Spawned < MaxStarts
    /\ child' = [child EXCEPT ![Spawned + 1] = "alive"]
    /\ _process' = Spawned + 1
    /\ _running' = TRUE
    /\ _output_thread' = Spawned + 1
    /\ rd_pc' = [rd_pc EXCEPT ![Spawned + 1] = "read"]
    /\ pipeSpawned' = 0
    /\ lastCall' = Call("start", "None")
    /\ UNCHANGED <<platform, callbacks, _pipe_thread, _ready, _token, _pipe_name,
                   _pipe_handle, rd_line, pt_pc, pt_line, linesRead, ctl_pc,
                   lastCls>>

\* stop(), after the process is dealt with: `self._ready = False`,
\* `self._token = None`, `self._pipe_name = None`, and on win32 the pipe
\* handle is closed and `self._pipe_handle = None`
StopClearKeepsToken ==
    /\ _ready' = FALSE
    /\ _pipe_name' = None
    /\ _pipe_handle' = IF platform = "win32" THEN 0 ELSE _pipe_handle
    /\ UNCHANGED _token
StopClear ==
    /\ _ready' = FALSE
    /\ _token' = None
    /\ _pipe_name' = None
    /\ _pipe_handle' = IF platform = "win32" THEN 0 ELSE _pipe_handle

\* stop() with self._process None: `self._running = False`, the
\* `if self._process:` block is skipped, the caches are cleared
StopNoProcessRaises ==
    /\ ctl_pc = "idle"
    /\ UNCHANGED nonLauncherVars
    /\ _process = 0
    /\ lastCall' = Call("stop", "AttributeError")
    /\ _running' = FALSE
    /\ UNCHANGED <<platform, callbacks, _process, _output_thread, _pipe_thread,
                   _ready, _token, _pipe_name, _pipe_handle, child, rd_pc,
                   rd_line, pt_pc, pt_line, linesRead, ctl_pc, pipeSpawned,
                   lastCls>>
StopNoProcess ==
    /\ ctl_pc = "idle"
    /\ UNCHANGED nonLauncherVars
    /\ _process = 0
    /\ lastCall' = Call("stop", "None")
    /\ _running' = FALSE
    /\ StopClear
    /\ UNCHANGED <<platform, callbacks, _process, _output_thread, _pipe_thread,
                   child, rd_pc, rd_line, pt_pc, pt_line, linesRead, ctl_pc,
                   pipeSpawned, lastCls>>

\* stop() with a process: `self._running = False`, then kill() or
\* terminate() / CTRL_BREAK followed by `self._process.wait(timeout=5)`
StopBegins ==
    /\ ctl_pc = "idle"
    /\ UNCHANGED nonLauncherVars
    /\ _process # 0
    /\ lastCall' = Call("stop", "None")
    /\ _running' = FALSE
    /\ ctl_pc' = "stopping"
    /\ UNCHANGED <<platform, callbacks, _process, _output_thread, _pipe_thread,
                   _ready, _token, _pipe_name, _pipe_handle, child, rd_pc,
                   rd_line, pt_pc, pt_line, linesRead, pipeSpawned,
                   lastCls>>

\* stop(): the child has ended (by the signal, by kill() after the grace
\* period, or an exception was caught and printed); `self._process = None`
\* in the finally block, the caches are cleared, stop() returns
StopReturns ==
    /\ ctl_pc = "stopping"
    /\ UNCHANGED nonLauncherVars
    /\ child' = [child EXCEPT ![_process] = "exited"]
    /\ _process' = 0
    /\ StopClear
    /\ ctl_pc' = "idle"
    /\ UNCHANGED <<platform, callbacks, _output_thread, _pipe_thread, _running,
                   rd_pc, rd_line, pt_pc, pt_line, linesRead, lastCall,
                   pipeSpawned, lastCls>>

LauncherNext ==
    \/ StartWhileRunning
    \/ StartFails
    \/ StartSpawns
    \/ StopNoProcess
    \/ StopBegins
    \/ StopReturns
    \/ \E g \in Children : ChildExits(g)
    \/ \E g \in Children : RdReadLine(g)
    \/ \E g \in Children : RdEndOfFile(g)
    \/ \E g \in Children : RdClassify(g)
    \/ \E k \in PipeThreads : PtStart(k)
    \/ \E k \in PipeThreads : PtOpenFails(k)
    \/ \E k \in PipeThreads : PtOpens(k)
    \/ \E k \in PipeThreads : PtLoop(k)
    \/ \E k \in PipeThreads : PtReadFile(k)
    \/ \E k \in PipeThreads : PtReadFails(k)
    \/ \E k \in PipeThreads : PtClassify(k)

(***************************************************************************)
(* launcher.py: NapCatQCELauncher.restart, called with wait_for_ready=False *)
(* on the thread that calls start() and stop()                             *)
(***************************************************************************)
\* restart(): `self.stop()` begins: `self._running = False`; without a
\* process the caches are cleared and stop() returns, `time.sleep(2)` begins
RestartBegins ==
    /\ ctl_pc = "idle"
    /\ UNCHANGED nonLauncherVars
    /\ lastCall' = Call("restart", "None")
    /\ _running' = FALSE
    /\ IF _process = 0
          THEN /\ StopClear
               /\ ctl_pc' = "restart_sleep"
          ELSE /\ ctl_pc' = "restart_stopping"
               /\ UNCHANGED <<_ready, _token, _pipe_name, _pipe_handle>>
    /\ UNCHANGED <<platform, callbacks, _process, _output_thread, _pipe_thread,
                   child, rd_pc, rd_line, pt_pc, pt_line, linesRead,
                   pipeSpawned, lastCls>>

\* restart(): the stop() it called ends as in StopReturns; `time.sleep(2)`
\* begins
RestartStopReturns ==
    /\ ctl_pc = "restart_stopping"
    /\ UNCHANGED nonLauncherVars
    /\ child' = [child EXCEPT ![_process] = "exited"]
    /\ _process' = 0
    /\ StopClear
    /\ ctl_pc' = "restart_sleep"
    /\ UNCHANGED <<platform, callbacks, _output_thread, _pipe_thread, _running,
                   rd_pc, rd_line, pt_pc, pt_line, linesRead, lastCall,
                   pipeSpawned, lastCls>>

\* restart(): after the sleep `return self.start(...)`, and start() raises
\* LauncherError as in StartFails
RestartStartFails ==
    /\ ctl_pc = "restart_sleep"
    /\ UNCHANGED nonLauncherVars
    /\ ~_running
    /\ lastCall' = Call("restart", "LauncherError")
    /\ ctl_pc' = "idle"
    /\ UNCHANGED <<platform, callbacks, _process, _output_thread, _pipe_thread,
                   _running, _ready, _token, _pipe_name, _pipe_handle, child,
                   rd_pc, rd_line, pt_pc, pt_line, linesRead,
                   pipeSpawned, lastCls>>

\* restart(): after the sleep `return self.start(...)`, and start() spawns
\* the new child and its _read_output thread as in StartSpawns
RestartSpawns ==
    /\ ctl_pc = "restart_sleep"
    /\ UNCHANGED nonLauncherVars
    /\ ~_running
    /\ Spawned < MaxStarts
    /\ child' = [child EXCEPT ![Spawned + 1] = "alive"]
    /\ _process' = Spawned + 1
    /\ _running' = TRUE
    /\ _output_thread' = Spawned + 1
    /\ rd_pc' = [rd_pc EXCEPT ![Spawned + 1] = "read"]
    /\ pipeSpawned' = 0
    /\ ctl_pc' = "idle"
    /\ UNCHANGED <<platform, callbacks, _pipe_thread, _ready, _token, _pipe_name,
                   _pipe_handle, rd_line, pt_pc, pt_line, linesRead, lastCall,
                   lastCls>>

RestartNext ==
    \/ LauncherNext
    \/ RestartBegins
    \/ RestartStopReturns
    \/ RestartStartFails
    \/ RestartSpawns

(***************************************************************************)
(* launcher.py: NapCatQCELauncher.wait_for_ready, as called by             *)
(* start(wait_for_ready=True, timeout) on the thread that calls start()    *)
(* and stop()                                                              *)
(***************************************************************************)
\* the wait_for_ready call in progress: the value it returned and the
\* statement that returned it
NoWait == [returned |-> "none", by |-> "none"]

ReadyInit == wfr = NoWait

\* the process self._process refers to has ended
ProcessExited == _process # 0 /\ child[_process] = "exited"

\* the launcher variables wait_for_ready does not assign
waitFrame == <<platform, callbacks, _process, _output_thread, _pipe_thread,
               _running, _ready, _token, _pipe_name, _pipe_handle, child,
               rd_pc, rd_line, pt_pc, pt_line, linesRead, pipeSpawned, lastCls>>

\* start(wait_for_ready=True, timeout): the spawn of StartSpawns, then
\* `return self.wait_for_ready(timeout)` begins: `start_time = time.time()`
StartSpawnsAndWaits ==
    /\ ctl_pc = "idle"
    /\ UNCHANGED nonReadyVars
    /\ ~_running
    /\ Spawned < MaxStarts
    /\ child' = [child EXCEPT ![Spawned + 1] = "alive"]
    /\ _process' = Spawned + 1
    /\ _running' = TRUE
    /\ _output_thread' = Spawned + 1
    /\ rd_pc' = [rd_pc EXCEPT ![Spawned + 1] = "read"]
    /\ pipeSpawned' = 0
    /\ lastCall' = Call("start", "None")
    /\ ctl_pc' = "wfr_loop"
    /\ wfr' = NoWait
    /\ UNCHANGED <<platform, callbacks, _pipe_thread, _ready, _token, _pipe_name,
                   _pipe_handle, rd_line, pt_pc, pt_line, linesRead, lastCls>>

\* `while time.time() - start_time < timeout:` is false: `return False`
WaitForReadyTimeoutStops ==
    /\ ctl_pc = "wfr_loop"
    /\ UNCHANGED nonReadyVars
    /\ wfr' = [returned |-> "False", by |-> "timeout"]
    /\ ctl_pc' = "wfr_returned"
    /\ _running' = FALSE
    /\ UNCHANGED <<platform, callbacks, _process, _output_thread, _pipe_thread,
                   _ready, _token, _pipe_name, _pipe_handle, child,
                   rd_pc, rd_line, pt_pc, pt_line, linesRead, pipeSpawned, lastCls,
                   lastCall>>
WaitForReadyTimeout ==
    /\ ctl_pc = "wfr_loop"
    /\ UNCHANGED nonReadyVars
    /\ wfr' = [returned |-> "False", by |-> "timeout"]
    /\ ctl_pc' = "wfr_returned"
    /\ UNCHANGED <<waitFrame, lastCall>>

\* the loop body: `if self._ready: return True`,
\* `if not self._running: return False`, else `time.sleep(0.5)`
WaitForReadyBody ==
    /\ ctl_pc = "wfr_loop"
    /\ UNCHANGED nonReadyVars
    /\ IF _ready
          THEN /\ wfr' = [returned |-> "True", by |-> "ready"]
               /\ ctl_pc' = "wfr_returned"
          ELSE IF ~_running
          THEN /\ wfr' = [returned |-> "False", by |-> "not_running"]
               /\ ctl_pc' = "wfr_returned"
          ELSE /\ wfr' = wfr
               /\ ctl_pc' = "wfr_sleep"
    /\ UNCHANGED <<waitFrame, lastCall>>

\* `time.sleep(0.5)` ends
WaitForReadySleep ==
    /\ ctl_pc = "wfr_sleep"
    /\ UNCHANGED nonReadyVars
    /\ ctl_pc' = "wfr_loop"
    /\ UNCHANGED <<waitFrame, lastCall, wfr>>

\* start() hands the value of wait_for_ready to its caller
StartReturnsWait ==
    /\ ctl_pc = "wfr_returned"
    /\ UNCHANGED nonReadyVars
    /\ ctl_pc' = "idle"
    /\ wfr' = NoWait
    /\ UNCHANGED <<waitFrame, lastCall>>

ReadyNext ==
    \/ LauncherNext
    \/ StartSpawnsAndWaits
    \/ WaitForReadyTimeout
    \/ WaitForReadyBody
    \/ WaitForReadySleep
    \/ StartReturnsWait

(***************************************************************************)
(* launcher.py: NapCatQCELauncher.token and NapCatQCELauncher.get_client   *)
(***************************************************************************)
\* self._token as _process_line and stop() leave it: None, the empty text
\* after a marker line that ends in a colon, or a token text; written as
\* the Optional[str] values of the auto_token model
CapturedTokens == {"None", "", "tok_out"}
Hosts == {"localhost", "remote_host"}
Ports == {40653, 8080}

\* the `token` property: `if self._token: return self._token`, else
\* `return get_token_from_config()`
LauncherTokenConfigFirst(captured, file) ==
    IF Truthy(GetTokenFromConfig(file)) THEN GetTokenFromConfig(file)
                                        ELSE captured
LauncherToken(captured, file) ==
    IF Truthy(captured) THEN captured ELSE GetTokenFromConfig(file)

NoGetClientResult == [kind |-> "none", token |-> "None", host |-> "None", port |-> 0]
LauncherErrorRaised ==
    [kind |-> "LauncherError", token |-> "None", host |-> "None", port |-> 0]
\* NapCatQCE(token=token, host=host, port=port)
LauncherClient(tok, host, port) ==
    [kind |-> "client", token |-> tok, host |-> host, port |-> port]

GetClientInit ==
    /\ gc_pc = "idle"
    /\ gc_self_token = "None"
    /\ gc_config = "missing"
    /\ gc_host = "localhost"
    /\ gc_port = 40653
    /\ gc_token = "None"
    /\ gc_result = NoGetClientResult

\* get_client(host, port) is called on a launcher, with some security.json
\* on disk
GetClientCall ==
    /\ gc_pc \in {"idle", "done"}
    /\ UNCHANGED nonGetClientVars
    /\ \E captured \in CapturedTokens, file \in ConfigFiles,
          host \in Hosts, port \in Ports :
          /\ gc_self_token' = captured
          /\ gc_config' = file
          /\ gc_host' = host
          /\ gc_port' = port
    /\ gc_token' = "None"
    /\ gc_result' = NoGetClientResult
    /\ gc_pc' = "token"

\* `token = self.token`
GetClientToken ==
    /\ gc_pc = "token"
    /\ UNCHANGED nonGetClientVars
    /\ gc_token' = LauncherToken(gc_self_token, gc_config)
    /\ gc_pc' = "decide"
    /\ UNCHANGED <<gc_self_token, gc_config, gc_host, gc_port, gc_result>>

\* `if not token: raise LauncherError(...)`, else
\* `return NapCatQCE(token=token, host=host, port=port)`
GetClientDecide ==
    /\ gc_pc = "decide"
    /\ UNCHANGED nonGetClientVars
    /\ gc_result' = IF ~Truthy(gc_token)
                       THEN LauncherErrorRaised
                       ELSE LauncherClient(gc_token, gc_host, gc_port)
    /\ gc_pc' = "done"
    /\ UNCHANGED <<gc_self_token, gc_config, gc_host, gc_port, gc_token>>

GetClientNext ==
    \/ GetClientCall
    \/ GetClientToken
    \/ GetClientDecide

(***************************************************************************)
(* websocket.py: WebSocketClient.on, off, _emit and _on_message            *)
(***************************************************************************)
WsEventTypes == {"export_progress", "export_complete"}
\* the handler callables: "h_ok" returns, "h_raise" raises an Exception
WsHandlers == {"h_ok", "h_raise"}
WsRaises(h) == h = "h_raise"
\* the frames the server sends: text that is not JSON, or an object with a
\* "type"
WsFrames == {"not_json"} \cup WsEventTypes

\* one registration: the callable, and the ordinal of the on() call that
\* registered it
Registration(h, n) == [h |-> h, n |-> n]

WsHandlerInit ==
    /\ _handlers = [t \in WsEventTypes |-> <<>>]
    /\ ws_keys = {}
    /\ ws_ons = 0
    /\ ws_live = {}
    /\ em_pc = "recv"
    /\ em_type = "None"
    /\ em_list = <<>>
    /\ em_alias = FALSE
    /\ em_idx = 1
    /\ em_calls = <<>>
    /\ em_begin = {}
    /\ em_quiet = TRUE
    /\ ws_frames = 0
    /\ ws_caught = {}

\* the list object the `for` of _emit iterates: the dictionary's entry while
\* it has not been rebound, else the object the iteration started on
EmitList == IF em_alias THEN _handlers[em_type] ELSE em_list

\* `self._handlers[event_type].append(handler)`
AppendedFirst(list, reg) == <<reg>> \o list
Appended(list, reg) == Append(list, reg)

\* on(event_type, handler), from the application's thread
WsOn(t, h) ==
    /\ UNCHANGED nonHandlerVars
    /\ ws_ons < MaxOns
    /\ _handlers' = [_handlers EXCEPT ![t] = Appended(@, Registration(h, ws_ons + 1))]
    /\ ws_keys' = ws_keys \cup {t}
    /\ ws_ons' = ws_ons + 1
    /\ ws_live' = ws_live \cup {<<t, Registration(h, ws_ons + 1)>>}
    /\ em_quiet' = (em_quiet /\ ~(em_pc = "iter" /\ em_type = t))
    /\ UNCHANGED <<em_pc, em_type, em_list, em_alias, em_idx, em_calls, em_begin,
                   ws_frames, ws_caught>>

\* `[h for h in self._handlers[event_type] if h != handler]`
Without(list, h) == SelectSeq(list, LAMBDA r : r.h # h)

\* off(event_type, handler), handler "None" removing every handler; the
\* dictionary entry is rebound to a new list, so a running _emit keeps the
\* list it started on
WsOff(t, h) ==
    /\ UNCHANGED nonHandlerVars
    /\ IF t \in ws_keys
          THEN /\ _handlers' = [_handlers EXCEPT ![t] =
                                   IF h = "None" THEN <<>> ELSE Without(@, h)]
               /\ IF em_pc = "iter" /\ em_alias /\ em_type = t
                     THEN em_list' = _handlers[t] /\ em_alias' = FALSE
                     ELSE UNCHANGED <<em_list, em_alias>>
          ELSE UNCHANGED <<_handlers, em_list, em_alias>>
    /\ ws_live' = {e \in ws_live : ~(e[1] = t /\ (h = "None" \/ e[2].h = h))}
    /\ em_quiet' = (em_quiet /\ ~(em_pc = "iter" /\ em_type = t))
    /\ UNCHANGED <<ws_keys, ws_ons, em_pc, em_type, em_idx, em_calls, em_begin,
                   ws_frames, ws_caught>>

\* _on_message(ws, message): json.loads fails and the error is printed, or
\* _emit(event_type, event_data) begins:
\* `handlers = self._handlers.get(event_type, [])`
WsOnMessage(m) ==
    /\ em_pc = "recv"
    /\ UNCHANGED nonHandlerVars
    /\ ws_frames < MaxFrames
    /\ IF m = "not_json"
          THEN /\ em_type' = "None"
               /\ em_alias' = FALSE
               /\ em_begin' = {}
               /\ ws_frames' = ws_frames + 1
               /\ em_pc' = "recv"
          ELSE /\ em_type' = m
               /\ em_alias' = (m \in ws_keys)
               /\ em_begin' = {e[2] : e \in {x \in ws_live : x[1] = m}}
               /\ UNCHANGED ws_frames
               /\ em_pc' = "iter"
    /\ em_list' = <<>>
    /\ em_idx' = 1
    /\ em_calls' = <<>>
    /\ em_quiet' = TRUE
    /\ UNCHANGED <<_handlers, ws_keys, ws_ons, ws_live, ws_caught>>

\* one turn of `for handler in handlers:`: `handler(data)` inside
\* `try: ... except Exception as e: print(...)`
EmitCallAborts ==
    /\ em_pc = "iter"
    /\ UNCHANGED nonHandlerVars
    /\ em_idx <= Len(EmitList)
    /\ em_calls' = Append(em_calls, EmitList[em_idx])
    /\ IF WsRaises(EmitList[em_idx].h)
          THEN /\ ws_caught' = ws_caught \cup {ws_frames + 1}
               /\ em_idx' = Len(EmitList) + 1
          ELSE /\ UNCHANGED ws_caught
               /\ em_idx' = em_idx + 1
    /\ UNCHANGED <<_handlers, ws_keys, ws_ons, ws_live, em_pc, em_type, em_list,
                   em_alias, em_begin, em_quiet, ws_frames>>
EmitCall ==
    /\ em_pc = "iter"
    /\ UNCHANGED nonHandlerVars
    /\ em_idx <= Len(EmitList)
    /\ em_calls' = Append(em_calls, EmitList[em_idx])
    /\ ws_caught' = IF WsRaises(EmitList[em_idx].h)
                        THEN ws_caught \cup {ws_frames + 1}
                        ELSE ws_caught
    /\ em_idx' = em_idx + 1
    /\ UNCHANGED <<_handlers, ws_keys, ws_ons, ws_live, em_pc, em_type, em_list,
                   em_alias, em_begin, em_quiet, ws_frames>>

\* the `for` is exhausted: _emit and _on_message return to the receive loop
EmitEnd ==
    /\ em_pc = "iter"
    /\ UNCHANGED nonHandlerVars
    /\ em_idx > Len(EmitList)
    /\ em_pc' = "recv"
    /\ ws_frames' = ws_frames + 1
    /\ em_list' = EmitList
    /\ em_alias' = FALSE
    /\ UNCHANGED <<_handlers, ws_keys, ws_ons, ws_live, em_type, em_idx, em_calls,
                   em_begin, em_quiet, ws_caught>>

HandlerNext ==
    \/ \E t \in WsEventTypes, h \in WsHandlers : WsOn(t, h)
    \/ \E t \in WsEventTypes, h \in WsHandlers \cup {"None"} : WsOff(t, h)
    \/ \E m \in WsFrames : WsOnMessage(m)
    \/ EmitCall
    \/ EmitEnd

(***************************************************************************)
(* websocket.py: WebSocketClient.connect, disconnect, _connect_internal,   *)
(* _on_open and _on_close                                                  *)
(***************************************************************************)
\* the threads connect() starts, in the order it starts them; the
\* WebSocketApp a thread runs carries the thread's index
WsThreads == 1..MaxConnects

ConnInit ==
    /\ cn_pc = "new"
    /\ auto_reconnect = TRUE
    /\ _should_reconnect = TRUE
    /\ _connected = FALSE
    /\ _ws = 0
    /\ th_pc = [t \in WsThreads |-> "none"]
    /\ th_app = [t \in WsThreads |-> "none"]
    /\ th_depth = [t \in WsThreads |-> 0]
    /\ cn_disconnected = FALSE

\* a connection of thread t is being established or is open
Active(t) == th_app[t] \in {"running", "open"}
Started == Cardinality({t \in WsThreads : th_pc[t] # "none"})

\* WebSocketClient(host, port, token, auto_reconnect, reconnect_interval)
WsConstruct ==
    /\ cn_pc = "new"
    /\ UNCHANGED nonConnVars
    /\ auto_reconnect' \in BOOLEAN
    /\ cn_pc' = "idle"
    /\ UNCHANGED <<_should_reconnect, _connected, _ws, th_pc, th_app, th_depth,
                   cn_disconnected>>

\* connect(blocking=False): `self._should_reconnect = True`, then a thread
\* with target _connect_internal is created and started, and
\* `time.sleep(0.5)` begins
WsConnect ==
    /\ cn_pc = "idle"
    /\ UNCHANGED nonConnVars
    /\ Started < MaxConnects
    /\ _should_reconnect' = TRUE
    /\ th_pc' = [th_pc EXCEPT ![Started + 1] = "start"]
    /\ cn_disconnected' = FALSE
    /\ cn_pc' = "conn_sleep"
    /\ UNCHANGED <<auto_reconnect, _connected, _ws, th_app, th_depth>>

\* connect(): the sleep ends and the call returns
WsConnectReturns ==
    /\ cn_pc = "conn_sleep"
    /\ UNCHANGED nonConnVars
    /\ cn_pc' = "idle"
    /\ UNCHANGED <<auto_reconnect, _should_reconnect, _connected, _ws, th_pc,
                   th_app, th_depth, cn_disconnected>>

\* _connect_internal() on thread t: `self._ws = websocket.WebSocketApp(...)`,
\* `self._ws.run_forever()` begins to connect
ConnectInternal(t) ==
    /\ _ws' = t
    /\ th_app' = [th_app EXCEPT ![t] = "running"]
    /\ th_pc' = [th_pc EXCEPT ![t] = "run"]

\* the thread connect() started calls _connect_internal
ThStart(t) ==
    /\ th_pc[t] = "start"
    /\ UNCHANGED nonConnVars
    /\ ConnectInternal(t)
    /\ UNCHANGED <<cn_pc, auto_reconnect, _should_reconnect, _connected, th_depth,
                   cn_disconnected>>

\* _on_open(ws): `self._connected = True`
ThOnOpen(t) ==
    /\ th_pc[t] = "run"
    /\ UNCHANGED nonConnVars
    /\ th_app[t] = "running"
    /\ th_app' = [th_app EXCEPT ![t] = "open"]
    /\ _connected' = TRUE
    /\ UNCHANGED <<cn_pc, auto_reconnect, _should_reconnect, _ws, th_pc, th_depth,
                   cn_disconnected>>

\* the connection of thread t fails to open or is closed by the peer or the
\* network: run_forever leaves its loop and calls the on_close callback
ThConnectionCloses(t) ==
    /\ th_pc[t] = "run"
    /\ UNCHANGED nonConnVars
    /\ Active(t)
    /\ th_app' = [th_app EXCEPT ![t] = "closed"]
    /\ th_pc' = [th_pc EXCEPT ![t] = "on_close"]
    /\ UNCHANGED <<cn_pc, auto_reconnect, _should_reconnect, _connected, _ws,
                   th_depth, cn_disconnected>>

\* _on_close: `self._connected = False`, `self._emit("disconnected", ...)`
ThOnClose(t) ==
    /\ th_pc[t] = "on_close"
    /\ UNCHANGED nonConnVars
    /\ _connected' = FALSE
    /\ th_pc' = [th_pc EXCEPT ![t] = "check"]
    /\ UNCHANGED <<cn_pc, auto_reconnect, _should_reconnect, _ws, th_app, th_depth,
                   cn_disconnected>>

\* _on_close: `if self.auto_reconnect and self._should_reconnect:`, then
\* `time.sleep(self.reconnect_interval)` begins; else the callback returns,
\* and with it run_forever and every _connect_internal of the thread
ThOnCloseCheck(t) ==
    /\ th_pc[t] = "check"
    /\ UNCHANGED nonConnVars
    /\ th_pc' = [th_pc EXCEPT ![t] =
                    IF auto_reconnect /\ _should_reconnect THEN "sleep" ELSE "ended"]
    /\ UNCHANGED <<cn_pc, auto_reconnect, _should_reconnect, _connected, _ws,
                   th_app, th_depth, cn_disconnected>>

\* _on_close: the sleep ends, `if self._should_reconnect:`
ThOnCloseWake(t) ==
    /\ th_pc[t] = "sleep"
    /\ UNCHANGED nonConnVars
    /\ th_pc' = [th_pc EXCEPT ![t] =
                    IF _should_reconnect THEN "reconnect" ELSE "ended"]
    /\ UNCHANGED <<cn_pc, auto_reconnect, _should_reconnect, _connected, _ws,
                   th_app, th_depth, cn_disconnected>>

\* _on_close: `self._connect_internal()`, called inside the on_close callback
\* that the enclosing run_forever is running: one more level of nesting on
\* the thread's stack. At the interpreter's recursion limit the call raises
\* RecursionError and the thread's stack unwinds.
ThReconnect(t) ==
    /\ th_pc[t] = "reconnect"
    /\ UNCHANGED nonConnVars
    /\ IF th_depth[t] + 1 >= RecursionLimit
          THEN /\ th_pc' = [th_pc EXCEPT ![t] = "ended"]
               /\ UNCHANGED <<_ws, th_app, th_depth>>
          ELSE /\ ConnectInternal(t)
               /\ th_depth' = [th_depth EXCEPT ![t] = @ + 1]
    /\ UNCHANGED <<cn_pc, auto_reconnect, _should_reconnect, _connected,
                   cn_disconnected>>

\* disconnect(): `self._should_reconnect = False`
WsDisconnect ==
    /\ cn_pc = "idle"
    /\ UNCHANGED nonConnVars
    /\ _should_reconnect' = FALSE
    /\ cn_pc' = "disc_test"
    /\ UNCHANGED <<auto_reconnect, _connected, _ws, th_pc, th_app, th_depth,
                   cn_disconnected>>

\* disconnect(): `if self._ws:` and `self._ws.close()`: the connection of
\* the WebSocketApp is closed, and its run_forever goes on to on_close
DisconnectClose ==
    /\ cn_pc = "disc_test"
    /\ UNCHANGED nonConnVars
    /\ IF _ws # 0
          THEN /\ cn_pc' = "disc_clear"
               /\ IF Active(_ws)
                     THEN /\ th_app' = [th_app EXCEPT ![_ws] = "closed"]
                          /\ th_pc' = [th_pc EXCEPT ![_ws] = "on_close"]
                     ELSE UNCHANGED <<th_app, th_pc>>
          ELSE /\ cn_pc' = "disc_flag"
               /\ UNCHANGED <<th_app, th_pc>>
    /\ UNCHANGED <<auto_reconnect, _should_reconnect, _connected, _ws, th_depth,
                   cn_disconnected>>

\* disconnect(): `self._ws = None`
DisconnectClear ==
    /\ cn_pc = "disc_clear"
    /\ UNCHANGED nonConnVars
    /\ _ws' = 0
    /\ cn_pc' = "disc_flag"
    /\ UNCHANGED <<auto_reconnect, _should_reconnect, _connected, th_pc, th_app,
                   th_depth, cn_disconnected>>

\* disconnect(): `self._connected = False`, and the call returns
DisconnectReturns ==
    /\ cn_pc = "disc_flag"
    /\ UNCHANGED nonConnVars
    /\ _connected' = FALSE
    /\ cn_pc' = "idle"
    /\ cn_disconnected' = TRUE
    /\ UNCHANGED <<auto_reconnect, _should_reconnect, _ws, th_pc, th_app, th_depth>>

\* the steps of the threads that run connections
ConnThreadNext ==
    \E t \in WsThreads :
        \/ ThStart(t)
        \/ ThOnOpen(t)
        \/ ThConnectionCloses(t)
        \/ ThOnClose(t)
        \/ ThOnCloseCheck(t)
        \/ ThOnCloseWake(t)
        \/ ThReconnect(t)

ConnNext ==
    \/ WsConstruct
    \/ WsConnect
    \/ WsConnectReturns
    \/ WsDisconnect
    \/ DisconnectClose
    \/ DisconnectClear
    \/ DisconnectReturns
    \/ ConnThreadNext

\* an application that never calls disconnect()
ConnLiveNext ==
    \/ WsConstruct
    \/ WsConnect
    \/ WsConnectReturns
    \/ ConnThreadNext

\* every thread that has a step to take takes it; the peer is not obliged to
\* close a connection
ConnFairness ==
    \A t \in WsThreads :
        /\ WF_vars(ThStart(t))
        /\ WF_vars(ThOnClose(t))
        /\ WF_vars(ThOnCloseCheck(t))
        /\ WF_vars(ThOnCloseWake(t))
        /\ WF_vars(ThReconnect(t))

(***************************************************************************)
(* launcher.py: NapCatQCELauncher._read_named_pipe, the `partial_line`     *)
(* buffering of the bytes ReadFile delivers                                *)
(***************************************************************************)
\* the bytes the side-channel carries: two ASCII letters, the newline, and
\* the lead byte and the continuation byte of a two-byte UTF-8 character
PipeBytes == {"a", "b", "\n", "lead", "cont"}
RECURSIVE ByteStreams(_)
ByteStreams(n) ==
    IF n = 0 THEN {<<>>}
    ELSE LET shorter == ByteStreams(n - 1)
         IN  shorter \cup {Append(s, x) : s \in shorter, x \in PipeBytes}

\* `buffer.raw[:bytes_read.value].decode('utf-8', errors='replace')`: a lead
\* byte with its continuation byte is one character; a lead byte without
\* one and a continuation byte without a lead byte become U+FFFD
RECURSIVE DecodeUtf8(_)
DecodeUtf8(bytes) ==
    IF bytes = <<>> THEN <<>>
    ELSE IF bytes[1] = "lead" /\ Len(bytes) >= 2 /\ bytes[2] = "cont"
            THEN <<"two_byte_char">> \o DecodeUtf8(SubSeq(bytes, 3, Len(bytes)))
    ELSE IF bytes[1] \in {"lead", "cont"}
            THEN <<"U+FFFD">> \o DecodeUtf8(Tail(bytes))
    ELSE <<bytes[1]>> \o DecodeUtf8(Tail(bytes))

\* `data.split('\n')`: the segments between the newlines, the last one being
\* what follows the last newline
RECURSIVE SplitNewline(_)
SplitNewline(data) ==
    IF \A i \in 1..Len(data) : data[i] # "\n"
       THEN <<data>>
       ELSE LET i == CHOOSE k \in 1..Len(data) :
                        data[k] = "\n" /\ \A j \in 1..(k - 1) : data[j] # "\n"
            IN  <<SubSeq(data, 1, i - 1)>>
                   \o SplitNewline(SubSeq(data, i + 1, Len(data)))

BufferInit ==
    /\ bf_pc = "closed"
    /\ bf_stream = <<>>
    /\ bf_read = 0
    /\ bf_chunks = 0
    /\ partial_line = <<>>
    /\ bf_lines = <<>>

\* the pipe is opened on some byte stream: `partial_line = ""`
BufferOpen ==
    /\ bf_pc = "closed"
    /\ UNCHANGED nonBufferVars
    /\ bf_stream' \in ByteStreams(MaxStream)
    /\ bf_read' = 0
    /\ bf_chunks' = 0
    /\ partial_line' = <<>>
    /\ bf_lines' = <<>>
    /\ bf_pc' = "loop"

\* one turn of `while self._running:` in which ReadFile delivers the next n
\* bytes: decode, `data = partial_line + data`, `lines = data.split('\n')`,
\* `partial_line = lines[-1]`, and _process_line for each of lines[:-1]
BufferRead(n) ==
    /\ bf_pc = "loop"
    /\ UNCHANGED nonBufferVars
    /\ bf_read + n <= Len(bf_stream)
    /\ LET data == partial_line
                     \o DecodeUtf8(SubSeq(bf_stream, bf_read + 1, bf_read + n))
           lines == SplitNewline(data)
       IN  /\ partial_line' = lines[Len(lines)]
           /\ bf_lines' = bf_lines \o SubSeq(lines, 1, Len(lines) - 1)
    /\ bf_read' = bf_read + n
    /\ bf_chunks' = bf_chunks + 1
    /\ UNCHANGED <<bf_pc, bf_stream>>

BufferNext ==
    \/ BufferOpen
    \/ \E n \in 1..MaxStream : BufferRead(n)

(***************************************************************************)
(* launcher.py: _read_output and _process_line with user callbacks that    *)
(* may raise.  One _read_output thread of a running supervisor; every      *)
(* callback is registered, and for each line the callbacks that raise when *)
(* they are invoked are an input.                                          *)
(***************************************************************************)
UserCallbacks == {"on_ready", "on_error", "on_output"}

CallbackInit ==
    /\ cb_pc = "none"
    /\ cb_line = <<>>
    /\ cb_ready = FALSE
    /\ cb_token = None
    /\ cb_pipe_name = None
    /\ cb_calls = <<>>
    /\ cb_raised = "None"
    /\ cb_read = 0

\* the callback invocations _process_line makes for the stripped line l when
\* none of them raises, in the order of its rules
PlannedCalls(l) ==
    (IF HasTokenMarker(l) /\ HasTokenParts(l) THEN <<"on_ready">> ELSE <<>>)
    \o (IF HasStartedMarker(l) THEN <<"on_ready">> ELSE <<>>)
    \o (IF HasErrorMarker(l) THEN <<"on_error">> ELSE <<>>)
    \o <<"on_output">>

\* the invocations made when the callbacks of `raising` raise: the planned
\* ones up to and including the first that raises
MadeCalls(l, raising) ==
    LET planned == PlannedCalls(l)
        bad == {i \in 1..Len(planned) : planned[i] \in raising}
    IN  IF bad = {}
           THEN planned
           ELSE SubSeq(planned, 1, CHOOSE i \in bad : \A j \in bad : i <= j)

\* start(): the _read_output thread is started
CbStart ==
    /\ cb_pc = "none"
    /\ UNCHANGED nonCallbackVars
    /\ cb_pc' = "read"
    /\ UNCHANGED <<cb_line, cb_ready, cb_token, cb_pipe_name, cb_calls,
                   cb_raised, cb_read>>

\* _read_output: readline yields the next line; _running is set, so the
\* line goes to _process_line
CbReadLine ==
    /\ cb_pc = "read"
    /\ UNCHANGED nonCallbackVars
    /\ cb_read < MaxLines
    /\ \E line \in InputLines : cb_line' = line
    /\ cb_read' = cb_read + 1
    /\ cb_pc' = "classify"
    /\ UNCHANGED <<cb_ready, cb_token, cb_pipe_name, cb_calls, cb_raised>>

\* _read_output: readline returns "", the thread ends
CbEndOfFile ==
    /\ cb_pc = "read"
    /\ UNCHANGED nonCallbackVars
    /\ cb_pc' = "ended"
    /\ UNCHANGED <<cb_line, cb_ready, cb_token, cb_pipe_name, cb_calls,
                   cb_raised, cb_read>>

\* _read_output: `self._process_line(line)` where the callbacks of `raising`
\* raise when invoked.  The statements of _process_line before the raising
\* call have run; the exception leaves _process_line, the `for` of
\* _read_output and the thread's target
CbClassify(raising) ==
    /\ cb_pc = "classify"
    /\ UNCHANGED nonCallbackVars
    /\ LET l == Strip(cb_line)
           made == MadeCalls(l, raising)
           raises == l # <<>> /\ made[Len(made)] \in raising
           tokHit == HasTokenMarker(l) /\ HasTokenParts(l)
           \* the started rule is reached unless the token rule's call raised
           startHit == HasStartedMarker(l)
                          /\ ~(raises /\ tokHit /\ Len(made) = 1)
       IN  /\ IF l = <<>>
                 THEN /\ cb_calls' = <<>>
                      /\ UNCHANGED <<cb_ready, cb_token, cb_pipe_name, cb_raised>>
                 ELSE /\ cb_pipe_name' =
                            IF PipeMatch(l) # None THEN PipeMatch(l) ELSE cb_pipe_name
                      /\ cb_token' = IF tokHit THEN Some(ExtractToken(l)) ELSE cb_token
                      /\ cb_ready' = (cb_ready \/ tokHit \/ startHit)
                      /\ cb_calls' = made
                      /\ cb_raised' = IF raises THEN made[Len(made)] ELSE cb_raised
           /\ cb_pc' = IF raises THEN "dead" ELSE "read"
    /\ cb_line' = <<>>
    /\ UNCHANGED cb_read

CallbackNext ==
    \/ CbStart
    \/ CbReadLine
    \/ CbEndOfFile
    \/ \E raising \in SUBSET UserCallbacks : CbClassify(raising)

(***************************************************************************)
(* Specifications                                                          *)
(***************************************************************************)
Init ==
    /\ PollInit
    /\ MonInit
    /\ LauncherInit
    /\ LockInit
    /\ AutoTokenInit
    /\ RequestInit
    /\ ReadyInit
    /\ GetClientInit
    /\ WsHandlerInit
    /\ ConnInit
    /\ BufferInit
    /\ CallbackInit

PollSpec == Init /\ [][PollNext]_vars

MonitorSpec == Init /\ [][MonNext]_vars

MonitorLiveSpec == Init /\ [][MonLiveNext]_vars /\ MonFairness

RestartSpec == Init /\ [][RestartNext]_vars

LockSpec == Init /\ [][LockNext]_vars

\* every thread of the monitor keeps running: a thread that can take its next
\* statement takes it, and a thread waiting for the lock gets it when the
\* lock is free again and again; whether further frames arrive and whether
\* wait_for_task is called is left open
LockFairness ==
    /\ SF_vars(HandlerAcquire)
    /\ WF_vars(HandlerStore)
    /\ WF_vars(HandlerSignal)
    /\ WF_vars(HandlerRelease)
    /\ \A w \in Waiters :
          /\ SF_vars(WaitRegAcquire(w))
          /\ WF_vars(WaitRegStore(w))
          /\ WF_vars(WaitRegRelease(w))
          /\ WF_vars(WaitWoken(w))
          /\ WF_vars(WaitTimesOut(w))
          /\ SF_vars(WaitRetAcquire(w))
          /\ WF_vars(WaitRetDel(w))
          /\ WF_vars(WaitRetGet(w))
    /\ WF_vars(PollCheck)
    /\ SF_vars(PollAcquire)
    /\ WF_vars(PollGet)
    /\ WF_vars(PollCallback)
    /\ WF_vars(PollSleep)

LockLiveSpec == Init /\ [][LockNext]_vars /\ LockFairness

AutoTokenSpec == Init /\ [][AutoTokenNext]_vars

RequestSpec == Init /\ [][RequestNext]_vars

ReadySpec == Init /\ [][ReadyNext]_vars

GetClientSpec == Init /\ [][GetClientNext]_vars

HandlerSpec == Init /\ [][HandlerNext]_vars

ConnSpec == Init /\ [][ConnNext]_vars

BufferSpec == Init /\ [][BufferNext]_vars

CallbackSpec == Init /\ [][CallbackNext]_vars

ConnLiveSpec == Init /\ [][ConnLiveNext]_vars /\ ConnFairness

LauncherSpec == Init /\ [][LauncherNext]_vars

(***************************************************************************)
(* Claims about TasksAPI.wait_for_completion, checked under PollSpec.      *)
(***************************************************************************)
\* ceil(timeout / poll_interval)
CeilDiv(a, b) == (a + b - 1) \div b

\* C6 (as stated): when every fetched snapshot is RUNNING, the call ends with a
\* timeout error after at most ceil(timeout / poll_interval) fetches.
C6_AtMostCeilPolls ==
    (wfc_pc = "done" /\ allRunning) =>
        /\ wfc_result = [kind |-> "TimeoutError", task_id |-> task_id]
        /\ fetches <= CeilDiv(timeout, poll_interval)

\* C6 (amended): when every fetched snapshot is RUNNING, the call never returns
\* a task; it ends with a timeout error after at most
\* floor(timeout / poll_interval) + 2 fetches.
C6_TimeoutWithinFloorPlusTwoPolls ==
    allRunning =>
        /\ wfc_result.kind \in {"none", "TimeoutError"}
        /\ fetches <= (timeout \div poll_interval) + 2
        /\ wfc_pc = "done" =>
              wfc_result = [kind |-> "TimeoutError", task_id |-> task_id]

\* a run of RUNNING snapshots that timed out after exactly floor + 2 fetches
C6_Witness ==
    /\ wfc_pc = "done"
    /\ allRunning
    /\ wfc_result.kind = "TimeoutError"
    /\ timeout = 4
    /\ poll_interval = 2
    /\ fetches = 4

\* C7: if the first fetched snapshot is COMPLETED, the call makes exactly one
\* fetch, never sleeps, and returns that very snapshot.
C7_CompletedFirstReturnsAfterOnePoll ==
    (fetches >= 1 /\ firstTask.status = COMPLETED) =>
        /\ fetches = 1
        /\ sleeps = 0
        /\ wfc_pc \in {"progress", "branch", "done"}
        /\ wfc_pc = "done" => wfc_result = [kind |-> "return", task |-> firstTask]

\* the call has returned the COMPLETED snapshot of its first fetch
C7_Witness ==
    /\ wfc_pc = "done"
    /\ firstTask.status = COMPLETED
    /\ wfc_result = [kind |-> "return", task |-> firstTask]
    /\ fetches = 1
    /\ timeout = 0
    /\ poll_interval = 2

\* C8: a FAILED snapshot ends the call with the TASK_FAILED error carrying the
\* task id and the server's error detail, a CANCELLED snapshot with the
\* TASK_CANCELLED error carrying the task id; no fetch follows that snapshot.
C8_FailedAndCancelledRaise ==
    /\ task.status = FAILED =>
          /\ wfc_pc \in {"progress", "branch", "done"}
          /\ fetches = task.fetchNo
          /\ wfc_pc = "done" =>
                wfc_result = [kind |-> "APIError", code |-> "TASK_FAILED",
                              task_id |-> task_id, error |-> task.error]
    /\ task.status = CANCELLED =>
          /\ wfc_pc \in {"progress", "branch", "done"}
          /\ fetches = task.fetchNo
          /\ wfc_pc = "done" =>
                wfc_result = [kind |-> "APIError", code |-> "TASK_CANCELLED",
                              task_id |-> task_id]

\* the second fetch reported FAILED with an error detail and the call raised
C8_Witness ==
    /\ wfc_pc = "done"
    /\ task.status = FAILED
    /\ task.error = "disk full"
    /\ task_id = "B"
    /\ fetches = 2
    /\ wfc_result.kind = "APIError"

\* C9: with on_progress given, every iteration invokes it exactly once with the
\* snapshot fetched in that iteration, between the fetch and the status
\* branch, the final iteration included; the branch outcome is the one the
\* snapshot passed to the callback determines.
C9_ProgressOncePerIteration ==
    on_progress =>
        /\ wfc_pc = "fetch" => progressCount = fetches
        /\ wfc_pc = "progress" => progressCount = fetches - 1
        /\ wfc_pc \in {"branch", "check", "sleep"} =>
              progressCount = fetches /\ progressLast = task
        /\ (wfc_pc = "done" /\ wfc_result.kind # "NetworkError") =>
              /\ progressCount = fetches
              /\ progressLast = task
              /\ progressLast.fetchNo = fetches
              /\ wfc_result.kind = "return" <=> progressLast.status = COMPLETED
              /\ wfc_result.kind = "return" => wfc_result.task = progressLast
              /\ wfc_result.kind = "APIError" <=>
                    progressLast.status \in {FAILED, CANCELLED}
              /\ wfc_result.kind = "TimeoutError" <=>
                    progressLast.status \in {PENDING, RUNNING, PAUSED}

\* a call with on_progress that ended on a terminal snapshot in its third
\* iteration, the callback having seen all three snapshots
C9_Witness ==
    /\ on_progress
    /\ wfc_pc = "done"
    /\ fetches = 3
    /\ progressCount = 3
    /\ progressLast = task
    /\ task.status = CANCELLED

\* the snapshot held in `task` was fetched in the iteration the call is in
\* or ended in
C29_FetchedInLastIteration == task.fetchNo = fetches

\* C29: the call returns a task only when the snapshot fetched in its last
\* iteration is COMPLETED, and then that snapshot; every other end of the
\* call (FAILED, CANCELLED, timeout, an error of the fetch) is an exception
\* that carries no task, and nothing is returned while the loop runs.
C29_ReturnsOnlyCompleted ==
    /\ wfc_pc # "done" => wfc_result = NoResult
    /\ wfc_pc = "done" =>
          /\ wfc_result.kind \in {"return", "APIError", "TimeoutError",
                                  "NetworkError"}
          /\ wfc_result.kind = "return"
                <=> (C29_FetchedInLastIteration /\ task.status = COMPLETED)
          /\ wfc_result.kind = "return" => wfc_result.task = task
          /\ wfc_result.kind # "return" => "task" \notin DOMAIN wfc_result

\* the third fetch failed after two RUNNING snapshots: the call raised and
\* returned nothing
C29_Witness ==
    /\ wfc_pc = "done"
    /\ wfc_result = FetchError
    /\ fetches = 3
    /\ task.status = RUNNING
    /\ task.fetchNo = 2

\* C30: every call makes at least one fetch, whatever the timeout; a timeout
\* error is raised only after a PENDING, RUNNING or PAUSED snapshot of the
\* same iteration, past the deadline, and after one passed check and one
\* sleep for each earlier iteration; a COMPLETED, FAILED or CANCELLED
\* snapshot decides the outcome even when the deadline has passed.
C30_TimeoutOnlyAfterNonTerminal ==
    wfc_pc = "done" =>
        /\ fetches >= 1
        /\ wfc_result.kind = "TimeoutError" =>
              /\ task.fetchNo = fetches
              /\ task.status \in {PENDING, RUNNING, PAUSED}
              /\ now - start_time > timeout
              /\ sleeps = fetches - 1
        /\ (task.fetchNo = fetches /\ wfc_result.kind # "NetworkError") =>
              /\ task.status = COMPLETED => wfc_result.kind = "return"
              /\ task.status \in {FAILED, CANCELLED} => wfc_result.kind = "APIError"

\* a COMPLETED snapshot fetched in the second iteration, after the deadline
\* had passed, was returned
C30_Witness ==
    /\ wfc_pc = "done"
    /\ fetches = 2
    /\ task.status = COMPLETED
    /\ now - start_time > timeout
    /\ wfc_result = [kind |-> "return", task |-> task]

(***************************************************************************)
(* Claims about ExportProgressMonitor, checked under MonitorSpec.          *)
(***************************************************************************)
\* the frames dispatched so far that carry the task id
FramesOf(id) == {eventLog[i] : i \in {j \in 1..Len(eventLog) : eventLog[j].taskId = id}}

\* C10: when the two waiters wait on distinct task ids, the Event of a waiter
\* is set exactly when a complete/error frame for its own task id has been
\* dispatched since it registered (a frame for the other id never releases
\* it), and a released waiter returns a snapshot stored for a frame of its own
\* task id, never an error.
C10_DistinctWaitersDoNotInterfere ==
    (mon_pc[1] # "idle" /\ mon_pc[2] # "idle" /\ mon_task_id[1] # mon_task_id[2]) =>
        \A w \in Waiters :
            /\ event_set[w] <=> terminalSeen[w]
            /\ mon_pc[w] = "woken" => event_set[w]
            /\ (mon_pc[w] = "done" /\ mon_result[w].kind # "TimeoutError") =>
                  /\ mon_result[w].kind = "return"
                  /\ \E data \in FramesOf(mon_task_id[w]) :
                        mon_result[w].snapshot = SnapOf(data)

\* waiter 1 registered for A, then waiter 2 for B; B completed first, then A;
\* both waiters returned the snapshot of their own export
C10_Witness ==
    /\ regLog = <<1, 2>>
    /\ mon_task_id[1] = "A" /\ mon_task_id[2] = "B"
    /\ Len(eventLog) = 2
    /\ eventLog[1].type = "export_complete" /\ eventLog[1].taskId = "B"
    /\ eventLog[2].type = "export_complete" /\ eventLog[2].taskId = "A"
    /\ terminalSeen[1] /\ terminalSeen[2]
    /\ mon_pc[1] = "done" /\ mon_pc[2] = "done"
    /\ mon_result[1] = [kind |-> "return",
                        snapshot |-> [status |-> "completed", progress |-> 100,
                                      file_name |-> "A.json", error |-> "None"]]
    /\ mon_result[2] = [kind |-> "return",
                        snapshot |-> [status |-> "completed", progress |-> 100,
                                      file_name |-> "B.json", error |-> "None"]]

(***************************************************************************)
(* Claims about NapCatQCELauncher, checked under LauncherSpec.             *)
(***************************************************************************)
\* C1: whatever the supervisor's state was (never started, running and not
\* ready, running and ready, child already exited), the step in which stop()
\* returns leaves _running false, _ready false, _token None, _process None,
\* _pipe_name None and _pipe_handle None.
C1_StopReturnsStopped ==
    [][(StopNoProcess \/ StopReturns) =>
          /\ ~_running'
          /\ ~_ready'
          /\ _token' = None
          /\ _process' = 0
          /\ _pipe_name' = None
          /\ _pipe_handle' = 0]_vars

\* stop() has returned on a supervisor that had a child and had been made
\* ready by a classified line, and every field is cleared
C1_Witness ==
    /\ lastCall = [op |-> "stop", raised |-> "None", onStopped |-> FALSE]
    /\ ctl_pc = "idle"
    /\ Spawned >= 1
    /\ lastCls.ready # <<>>
    /\ ~_running /\ ~_ready /\ _token = None
    /\ _process = 0 /\ _pipe_name = None /\ _pipe_handle = 0

\* C2: stop() on a supervisor that is already stopped raises nothing and
\* leaves every field of the supervisor as it was, so stop(); stop() ends in
\* the state a single stop() ends in.
C2_StopIdempotent ==
    [][(Stopped /\ ctl_pc = "idle" /\ lastCall' # lastCall /\ lastCall'.op = "stop") =>
          /\ lastCall'.raised = "None"
          /\ ctl_pc' = "idle"
          /\ UNCHANGED <<_process, _output_thread, _pipe_thread, _running,
                         _ready, _token, _pipe_name, _pipe_handle, callbacks,
                         platform>>]_vars

\* a second stop() has returned after a start() and a first stop(): it was
\* made on a stopped supervisor, raised nothing, and the supervisor is stopped
C2_Witness ==
    /\ lastCall = [op |-> "stop", raised |-> "None", onStopped |-> TRUE]
    /\ ctl_pc = "idle"
    /\ Spawned >= 1
    /\ Stopped

\* C3: in every reachable state the readiness flag implies the running flag.
C3_ReadyImpliesRunning == _ready => _running

\* C4: between one start() and the next, _process_line spawns the
\* side-channel reader thread at most once.
C4_PipeReaderSpawnedAtMostOnce == pipeSpawned <= 1

\* a line in which an access-token marker is followed by ":"
C5_TokenLine(l) ==
    \E i, j \in 1..Len(l) :
        /\ i < j
        /\ l[i] \in {"AccessTokenZh", "AccessToken"}
        /\ l[j] = ":"
\* the trailing colon-delimited segment of l, trimmed
C5_TrailingSegment(l) ==
    LET c == CHOOSE i \in 1..Len(l) :
                 l[i] = ":" /\ \A j \in (i + 1)..Len(l) : l[j] # ":"
    IN  Strip(SubSeq(l, c + 1, Len(l)))
\* a running supervisor that has classified a side-channel announcement
\* since start() classifies the line lastCls'.line in this step
C5_ClassifiesAfterAnnouncement ==
    /\ _running
    /\ pipeSpawned >= 1
    /\ \/ \E g \in Children : RdClassify(g)
       \/ \E k \in PipeThreads : PtClassify(k)
    /\ C5_TokenLine(lastCls'.line)

\* C5 as stated: after a side-channel announcement, classifying a token line
\* with token t sets the readiness flag, stores t, and invokes the
\* ready-callback exactly once, with t.
C5_ReadyCallbackExactlyOnce ==
    [][C5_ClassifiesAfterAnnouncement =>
          /\ _ready'
          /\ _token' = Some(C5_TrailingSegment(lastCls'.line))
          /\ lastCls'.ready = <<_token'>>]_vars

\* C5, amended: after a side-channel announcement, classifying a token line
\* with token t sets the readiness flag, stores t, and invokes the
\* ready-callback with t once when the line has no service-started marker and
\* twice when it has one.
C5_ReadyCallbackOncePerRule ==
    [][C5_ClassifiesAfterAnnouncement =>
          /\ _ready'
          /\ _token' = Some(C5_TrailingSegment(lastCls'.line))
          /\ lastCls'.ready =
                IF Contains(lastCls'.line, "Started")
                   THEN <<_token', _token'>>
                   ELSE <<_token'>>]_vars

\* the announcement was classified, then the line
\* "[12:30] AccessTokenZh: abc123": the supervisor is ready, holds abc123 and
\* the ready-callback got abc123 once
C5_Witness ==
    /\ _running
    /\ pipeSpawned >= 1
    /\ lastCls.line = <<"[12", ":", "30]", " ", "AccessTokenZh", ":", " ", "abc123", "\n">>
    /\ lastCls.ready = <<Some(<<"abc123">>)>>
    /\ _ready
    /\ _token = Some(<<"abc123">>)

(***************************************************************************)
(* Claims about ExportProgressMonitor.wait_for_task, checked under         *)
(* MonitorLiveSpec and MonitorSpec.                                        *)
(***************************************************************************)
\* the complete/error frames dispatched so far that carry the task id
TerminalFramesOf(id) == {data \in FramesOf(id) : data.type # "export_progress"}

\* C11: a wait_for_task call does not block forever, and a call for a task id
\* for which no complete/error frame has arrived ends by raising TimeoutError,
\* never by returning a snapshot.
C11_WaitWithoutEventsTimesOut ==
    \A w \in Waiters :
        /\ []<>(mon_pc[w] # "waiting")
        /\ []((mon_pc[w] = "done" /\ TerminalFramesOf(mon_task_id[w]) = {}) =>
                 mon_result[w] = MonTimeoutError(mon_task_id[w]))

\* waiter 1 waited on A while only a progress frame for A arrived, and its
\* call ended with TimeoutError
C11_Witness ==
    /\ mon_pc[1] = "done"
    /\ mon_task_id[1] = "A"
    /\ mon_result[1] = MonTimeoutError("A")
    /\ FramesOf("A") # {}
    /\ TerminalFramesOf("A") = {}

\* C12: once a wait_for_task call has returned or raised, the completion
\* signal it registered is no longer in the signal map.
C12_SignalRemovedWhenWaitEnds ==
    \A w \in Waiters :
        mon_pc[w] = "done" => _task_events[mon_task_id[w]] # w

\* C13: a wait_for_task call released by an export_error frame for its task
\* raises; it never returns the failed snapshot to the caller as a value.
C13_FailureIsRaised ==
    \A w \in Waiters :
        mon_pc[w] = "done" =>
            ~(mon_result[w].kind = "return" /\ mon_result[w].snapshot.status = "failed")

(***************************************************************************)
(* Claims about the lock of ExportProgressMonitor, checked under LockSpec. *)
(***************************************************************************)
\* C14: a thread that is about to read or write _tasks or _task_events holds
\* the lock; a thread inside event.wait, time.sleep or the on_progress
\* callback does not hold it; and whoever holds the lock is at a statement
\* inside a `with self._lock:` block, so it goes on to release it and no
\* thread waits for the lock forever.
C14_MapsUnderLockNeverAcrossBlocking ==
    /\ lk_recv_pc \in {"store", "signal"} => _lock = "recv"
    /\ lk_poll_pc = "get" => _lock = "p1"
    /\ lk_poll_pc \in {"callback", "sleep"} => _lock # "p1"
    /\ _lock = "recv" => lk_recv_pc \in {"store", "signal", "release"}
    /\ _lock = "p1" => lk_poll_pc = "get"
    /\ \A w \in Waiters :
          /\ lk_wait_pc[w] \in {"reg_store", "ret_del", "ret_get"} =>
                _lock = WaiterThread(w)
          /\ lk_wait_pc[w] = "waiting" => _lock # WaiterThread(w)
          /\ _lock = WaiterThread(w) =>
                lk_wait_pc[w] \in {"reg_store", "reg_release", "ret_del", "ret_get"}

\* the handler of an export_complete frame holds the lock and is about to set
\* the Event, while w1 is inside event.wait and its poll thread and w2 are
\* both waiting for the lock
C14_Witness ==
    /\ _lock = "recv"
    /\ lk_recv_pc = "signal"
    /\ lk_wait_pc[1] = "waiting"
    /\ lk_poll_pc = "acquire"
    /\ lk_wait_pc[2] = "reg_acquire"

C16_AuthStatusRaisesBeforeParsing ==
    (rq_pc = "done" /\ rq_response.status \in {401, 403}) =>
        /\ rq_result.kind = "AuthenticationError"
        /\ ~rq_parsed

\* a 403 response whose body is a well-formed success envelope with data
\* ended with AuthenticationError, unparsed
C16_Witness ==
    /\ rq_pc = "done"
    /\ rq_response.status = 403
    /\ rq_response.body.json
    /\ rq_response.body.success = "true"
    /\ rq_response.body.hasData
    /\ rq_result.kind = "AuthenticationError"
    /\ ~rq_parsed

\* C17: a _request call whose parsed body has success false never returns:
\* it raises AuthenticationError for type AUTH_ERROR; ValidationError with the
\* server message for type VALIDATION_ERROR; otherwise TaskNotFoundError with
\* the declared task id when the code (the context's code, or the type when
\* the context has none) is TASK_NOT_FOUND; otherwise APIError with the server
\* message, the code and the HTTP status.
C17_SuccessFalseAlwaysRaises ==
    (rq_pc = "done" /\ rq_parsed /\ rq_response.body.json
        /\ rq_response.body.success = "false") =>
        LET error == rq_response.body.error
            declared == IF error.code # "absent" THEN error.code
                        ELSE IF error.type # "absent" THEN error.type
                        ELSE "UNKNOWN_ERROR"
        IN  /\ rq_result.kind \in {"AuthenticationError", "ValidationError",
                                   "TaskNotFoundError", "APIError"}
            /\ error.type = "AUTH_ERROR" => rq_result.kind = "AuthenticationError"
            /\ error.type = "VALIDATION_ERROR" =>
                  /\ rq_result.kind = "ValidationError"
                  /\ error.message # "absent" => rq_result.message = error.message
            /\ (error.type \notin {"AUTH_ERROR", "VALIDATION_ERROR"}
                  /\ declared = "TASK_NOT_FOUND") =>
                  /\ rq_result.kind = "TaskNotFoundError"
                  /\ error.taskId # "absent" => rq_result.task_id = error.taskId
            /\ (error.type \notin {"AUTH_ERROR", "VALIDATION_ERROR"}
                  /\ declared # "TASK_NOT_FOUND") =>
                  /\ rq_result.kind = "APIError"
                  /\ error.message # "absent" => rq_result.message = error.message
                  /\ rq_result.code = declared
                  /\ rq_result.status = rq_response.status

\* a 200 response with {success: false, error: {type: VALIDATION_ERROR,
\* message: "bad peer"}} ended with ValidationError("bad peer")
C17_Witness ==
    /\ rq_pc = "done"
    /\ rq_response.status = 200
    /\ rq_response.body.success = "false"
    /\ rq_response.body.error.type = "VALIDATION_ERROR"
    /\ rq_response.body.error.message = "bad peer"
    /\ rq_result.kind = "ValidationError"
    /\ rq_result.message = "bad peer"

\* C18: when start(wait_for_ready=True) runs out of time, the step that
\* returns False leaves the child process, the running flag and the output
\* reader as they were: the launcher is still marked running and still holds
\* the process it spawned.
C18_TimeoutLeavesChildRunning ==
    [][(ctl_pc = "wfr_loop" /\ wfr'.by = "timeout")
         => /\ wfr'.returned = "False"
            /\ lastCall.op = "start"
            /\ _running /\ _running'
            /\ _process # 0 /\ _process' = _process
            /\ child' = child
            /\ _output_thread' = _output_thread
            /\ rd_pc' = rd_pc /\ pt_pc' = pt_pc
            /\ _ready' = _ready /\ _token' = _token]_vars

\* start(wait_for_ready=True) has returned False on the timeout while the
\* child is alive, the launcher is marked running and the reader still reads
C18_Witness ==
    /\ ctl_pc = "wfr_returned"
    /\ wfr = [returned |-> "False", by |-> "timeout"]
    /\ lastCall.op = "start"
    /\ _running /\ ~_ready
    /\ _process # 0 /\ child[_process] = "alive"
    /\ rd_pc[_process] \in {"read", "classify"}

\* C19: wait_for_ready fails closed: when the loop body runs after the
\* supervised process has exited by itself and no readiness was seen, it
\* returns False at once instead of sleeping until the timeout.
C19_ExitedProcessFailsClosed ==
    [][(ctl_pc = "wfr_loop" /\ ProcessExited /\ ~_ready /\ wfr'.by # "timeout"
        /\ ctl_pc' # ctl_pc)
         => (wfr'.returned = "False" /\ ctl_pc' = "wfr_returned")]_vars

\* C20: get_client() raises LauncherError exactly when neither the token
\* captured from the output nor the config-file lookup gives a credential;
\* otherwise it returns a client bound to the captured token when there is
\* one and to the config-file token when there is none.
C20_GetClientCredential ==
    gc_pc = "done" =>
        LET captured == gc_self_token
            fromConfig == GetTokenFromConfig(gc_config)
        IN  /\ (captured \in {"None", ""} /\ fromConfig \in {"None", ""})
                  <=> gc_result.kind = "LauncherError"
            /\ captured \notin {"None", ""}
                  => gc_result = [kind |-> "client", token |-> captured,
                                  host |-> gc_host, port |-> gc_port]
            /\ (captured \in {"None", ""} /\ fromConfig \notin {"None", ""})
                  => gc_result = [kind |-> "client", token |-> fromConfig,
                                  host |-> gc_host, port |-> gc_port]

\* get_client has returned a client bound to the captured token although
\* the config file holds another token
C20_Witness ==
    /\ gc_pc = "done"
    /\ gc_self_token = "tok_out"
    /\ gc_config = "with_token"
    /\ gc_result.kind = "client"
    /\ gc_result.token = "tok_out"

\* C21: a start() call that raises LauncherError because the child could not
\* be spawned leaves the supervisor stopped: the running flag is false before
\* and after, no process handle is stored, no child exists that did not exist
\* before and no reader thread has been started.
C21_SpawnFailureStaysStopped ==
    [][(lastCall' # lastCall /\ lastCall'.op = "start"
        /\ lastCall'.raised = "LauncherError")
         => /\ ~_running /\ ~_running'
            /\ _process = 0 /\ _process' = 0
            /\ child' = child
            /\ _output_thread' = _output_thread
            /\ rd_pc' = rd_pc
            /\ ctl_pc' = "idle"]_vars

\* the first start() of a supervisor has raised LauncherError: nothing was
\* spawned and the supervisor is as __init__ left it
C21_Witness ==
    /\ lastCall = [op |-> "start", raised |-> "LauncherError", onStopped |-> TRUE]
    /\ ctl_pc = "idle"
    /\ Spawned = 0
    /\ \A g \in Children : rd_pc[g] = "none"
    /\ Stopped

\* one _process_line call is made in this step, by the reader of the primary
\* stream or by a side-channel reader
C26_Classifies ==
    \/ \E g \in Children : RdClassify(g)
    \/ \E k \in PipeThreads : PtClassify(k)
\* the line holds an error indicator in either case
C26_ErrorLine(l) ==
    \E i \in 1..Len(l) : l[i] \in {"error", "ERROR", "ErrorZh"}
\* the readers go on after the call: the primary reader to its next read, a
\* side-channel reader to the next line of the chunk or to its next read
C26_ReadersGoOn ==
    /\ \A g \in Children : rd_pc'[g] # rd_pc[g] => rd_pc'[g] = "read"
    /\ \A k \in PipeThreads :
          pt_pc[k] = "classify" => pt_pc'[k] \in {"classify", "loop"}

C27_LinesOfConcatenatedStream ==
    bf_pc = "loop" =>
        bf_lines \o <<partial_line>>
            = SplitNewline(DecodeUtf8(SubSeq(bf_stream, 1, bf_read)))

(***************************************************************************)
(* Claims about WebSocketClient's handlers, checked under HandlerSpec.     *)
(***************************************************************************)
\* a frame with a type has been dispatched to the end
DispatchDone == em_pc = "recv" /\ em_type # "None"
InvokedSet == {em_calls[i] : i \in 1..Len(em_calls)}

\* C22: the handlers of a dispatch are invoked in the order of the on()
\* calls that registered them, each registration at most once; a finished
\* dispatch has invoked every registration of the type that on() had made
\* and off() had not removed when it began, and exactly those when no on()
\* or off() of the type ran meanwhile.
C22_InvokedInRegistrationOrder ==
    /\ \A i, j \in 1..Len(em_calls) : i < j => em_calls[i].n < em_calls[j].n
    /\ DispatchDone => em_begin \subseteq InvokedSet
    /\ (DispatchDone /\ em_quiet) => InvokedSet = em_begin

\* three on() calls for one type and an off() of the second handler, then a
\* dispatch that invokes the first and the third registration in that order
C22_Witness ==
    /\ DispatchDone
    /\ em_quiet
    /\ ws_keys = {em_type}
    /\ em_calls = <<Registration("h_ok", 1), Registration("h_ok", 3)>>

\* C23: a handler that raises does not end the dispatch: the `for` goes on
\* to the next handler, so a finished dispatch has invoked every handler of
\* the list it iterated, and the receive loop is back at receiving.
C23_RaisingHandlerIsContained ==
    /\ [](DispatchDone => em_calls = em_list)
    /\ [][ws_caught' # ws_caught =>
             /\ em_pc' = "iter"
             /\ em_idx' = em_idx + 1
             /\ ws_frames' = ws_frames]_vars

\* a handler raised in the first frame; the receive loop has dispatched a
\* second frame since, in which the first handler raised again and the
\* handler after it was invoked all the same
C23_Witness ==
    /\ DispatchDone
    /\ ws_caught = {1, 2}
    /\ ws_frames = 2
    /\ em_calls = <<Registration("h_raise", 1), Registration("h_ok", 2)>>

(***************************************************************************)
(* Claims about WebSocketClient's connection, checked under ConnSpec and   *)
(* ConnLiveSpec.                                                           *)
(***************************************************************************)
\* C24: once disconnect() has returned, and until connect() is called again,
\* no step begins a connection: no thread's WebSocketApp goes from not
\* active to connecting.
C24_NoConnectionAfterDisconnect ==
    [][(cn_disconnected /\ cn_disconnected')
         => \A t \in WsThreads :
               (th_app'[t] \in {"running", "open"}) => Active(t)]_vars

\* C25: at most one connection of a WebSocketClient is being established or
\* open at any time, whatever connect(), disconnect() and closures preceded.
C25_SingleConnection ==
    Cardinality({t \in WsThreads : Active(t)}) <= 1

C31_ReturnedSnapshotIsTerminal ==
    \A w \in Waiters :
        mon_result[w].kind = "return" =>
            mon_result[w].snapshot.status \in {"completed", "failed"}

(***************************************************************************)
(* Claims about the service-started rule and the side-channel of           *)
(* NapCatQCELauncher, checked under LauncherSpec.                          *)
(***************************************************************************)
\* a reader thread classifies the line lastCls'.line in this step, and the
\* line contains the service-started marker
C32_ClassifiesStartedLine ==
    /\ \/ \E g \in Children : RdClassify(g)
       \/ \E k \in PipeThreads : PtClassify(k)
    /\ Contains(lastCls'.line, "Started")

C34_TerminalBeforeWaitIsReturned ==
    [][\A w \in Waiters :
          (mon_pc[w] = "waiting" /\ mon_result'[w].kind = "TimeoutError") =>
              ~(/\ _tasks[mon_task_id[w]].status \in {"completed", "failed"}
                /\ ~terminalSeen[w])]_vars

\* wait_for_task call w ends in this step, and a terminal frame of its task
\* was dispatched while w and the other call were both in wait_for_task for
\* the same task id
C36_EndsAfterSharedTerminal(w) ==
    /\ mon_pc[w] \in {"waiting", "woken"}
    /\ mon_pc'[w] = "done"
    /\ terminalSeen[w]
    /\ \E v \in Waiters \ {w} :
          /\ mon_task_id[v] = mon_task_id[w]
          /\ terminalSeen[v]

\* C36: when two wait_for_task calls wait on the same task id and a terminal
\* frame of the task is dispatched, each of the two calls returns a terminal
\* snapshot: neither raises TimeoutError, and neither raises KeyError while
\* removing its signal.
C36_BothWaitersReturnTerminal ==
    [][\A w \in Waiters :
          C36_EndsAfterSharedTerminal(w) =>
              /\ mon_result'[w].kind = "return"
              /\ mon_result'[w].snapshot.status \in {"completed", "failed"}]_vars

(***************************************************************************)
(* Claims about the poll_progress thread of wait_for_task, checked under   *)
(* LockLiveSpec.                                                           *)
(***************************************************************************)
\* C37: once the wait_for_task call that passed on_progress has returned or
\* raised, its poll_progress thread eventually terminates, so on_progress
\* is invoked only finitely many more times.
C37_PollerStopsAfterWait ==
    (lk_wait_pc[PolledWaiter] = "done") ~> (lk_poll_pc = "done")

(***************************************************************************)
(* Claims about the HTTP status of a response in _request, checked under   *)
(* RequestSpec.                                                            *)
(***************************************************************************)
\* C38: a _request call returns a value only for a response whose HTTP
\* status is below 400; for a status of 400 or more it raises, whatever the
\* body is.
C38_ReturnsOnlyForSuccessStatus ==
    (rq_pc = "done" /\ rq_result.kind = "return") => rq_response.status < 400

(***************************************************************************)
(* Claims about stop() and restart() of NapCatQCELauncher and the reader   *)
(* threads they leave behind, checked under RestartSpec.                   *)
(***************************************************************************)
\* stop() has returned, by itself or as the first statement of restart(),
\* and no start() has begun since
C35_StoppedPeriod ==
    \/ ctl_pc = "idle" /\ lastCall.op = "stop"
    \/ ctl_pc = "restart_sleep"

\* C35: from the return of stop() to the next start() the readiness flag
\* stays false and no token is stored, whatever the reader threads still
\* classify; and a reader thread of an earlier child process changes neither
\* the flag nor the token once a newer child has been spawned.
C35_NoReadinessWhileStopped ==
    /\ [](C35_StoppedPeriod => (~_ready /\ _token = None))
    /\ [][\A g \in Children :
             (RdClassify(g) /\ g # _output_thread) =>
                 (_ready' = _ready /\ _token' = _token)]_vars

\* the child processes that are running
C39_AliveChildren == {g \in Children : child[g] = "alive"}
\* the _read_output threads that have not ended
C39_LiveReaders == {g \in Children : rd_pc[g] \in {"read", "classify"}}

\* C39, first part: start() on a running supervisor returns True and spawns
\* nothing.
C39_StartWhileRunningSpawnsNothing ==
    [][(ctl_pc = "idle" /\ _running /\ lastCall'.op = "start"
          /\ lastCall' # lastCall) =>
           (child' = child /\ rd_pc' = rd_pc /\ lastCall'.raised = "None")]_vars

\* C39, second part for the child processes: at most one child process is
\* running at any time, and restart() spawns only when the stop() it called
\* has returned and left no process behind.
C39_AtMostOneChild ==
    /\ [](Cardinality(C39_AliveChildren) <= 1)
    /\ [][(ctl_pc \in {"restart_stopping", "restart_sleep"}
             /\ C39_AliveChildren' \ C39_AliveChildren # {}) =>
              (ctl_pc = "restart_sleep" /\ _process = 0
                 /\ C39_AliveChildren = {})]_vars

\* C39: start() on a running supervisor spawns nothing; at most one child
\* process and at most one primary-stream reader thread exist at a time
\* across start(), stop() and restart(); and restart() spawns only after the
\* stop() of the old process has returned.
C39_OneChildAndOneReader ==
    /\ C39_StartWhileRunningSpawnsNothing
    /\ C39_AtMostOneChild
    /\ [](Cardinality(C39_LiveReaders) <= 1)

(***************************************************************************)
(* Claims about user callbacks that raise, checked under CallbackSpec.     *)
(***************************************************************************)
\* C40: an exception raised by on_ready, on_error or on_output while a line
\* is classified does not end the primary-stream reader: after the step in
\* which a callback raised, the thread is reading the next line.
C40_RaisingCallbackKeepsReader ==
    [][cb_raised' # cb_raised => cb_pc' = "read"]_vars

====
